---- MODULE Spec2Model ----
(***************************************************************************)
(* State-machine model of the MCP Git server.                              *)
(*                                                                         *)
(* Two bodies of code answer requests:                                     *)
(*   - the operation groups (src/git-tools/*.ts), each operation obtaining  *)
(*     its provider from the getGit factory (utils: getGit);               *)
(*   - the dispatcher (src/index.ts), whose toolHandlers table routes to    *)
(*     the functions of the single-file module git-tools.ts, which check    *)
(*     the repository with verifyGitRepo.                                   *)
(*                                                                         *)
(* An operation is an async function: it runs until its next awaited        *)
(* provider call, the provider later returns or throws, and the operation   *)
(* resumes.  One action of the model is one such run.  Every operation is   *)
(* written in continuation form: given its arguments and the values the     *)
(* provider returned so far it says what it does next (Await a call,        *)
(* Return a value, Throw a value).                                          *)
(*                                                                         *)
(* Representation.  A JavaScript object is a function from its property     *)
(* names to values; an absent (undefined) property is a name that is not in *)
(* the DOMAIN.  Strings are strings, arrays are sequences.  The text item   *)
(* of a reply is represented by the JSON document it encodes.               *)
(***************************************************************************)
EXTENDS Integers, Sequences, FiniteSets, TLC

VARIABLES
    pc,        \* "idle" | "getGit" | "verify" | "body" | "settled" | "replied"
    request,   \* [via, tool, name, hasArgs, args]: the call being served
    cwd,       \* process.cwd()
    root,      \* the basePath the provider of this call was bound to
    calls,     \* provider calls issued for this request, in order
    outcomes,  \* how each completed call ended, in order
    rets,      \* values returned by the operation body's calls so far
    result,    \* the operation's promise
    reply,     \* the dispatcher's reply
    previous,  \* what a caller keeps of the call it made before this one
    observer   \* a gitStatus another caller runs while the request is served

vars == <<pc, request, cwd, root, calls, outcomes, rets, result, reply, previous,
          observer>>

----------------------------------------------------------------------------
(* JavaScript values and helpers *)

Has(o, k) == k \in DOMAIN o

\* a string-valued property that is truthy: present and not ""
StrGiven(o, k) == Has(o, k) /\ o[k] # ""

\* a boolean-valued property that is truthy
Flag(o, k) == Has(o, k) /\ o[k]

\* an array-valued property that is present and non-empty
NonEmptyList_anyList(o, k) == Has(o, k)

NonEmptyList(o, k) == Has(o, k) /\ Len(o[k]) > 0

\* o.k || dflt   for a string property
StrOr(o, k, dflt) == IF StrGiven(o, k) THEN o[k] ELSE dflt

\* the object with property k set when v was supplied: {k: a[k]}
Pass(a, k) == IF Has(a, k) THEN k :> a[k] ELSE <<>>

\* {k2: a[k]}
PassAs(a, k, k2) == IF Has(a, k) THEN k2 :> a[k] ELSE <<>>

\* an undefined array element (a string no input equals)
Undefined == "<undefined>"

\* a[k] as an array element
Elem(a, k) == IF Has(a, k) THEN a[k] ELSE Undefined

\* `${a.k}`
Interp(a, k) == IF Has(a, k) THEN a[k] ELSE "undefined"

RECURSIVE Join(_, _)
\* Array.prototype.join
Join(xs, sep) ==
    IF Len(xs) = 0 THEN ""
    ELSE IF Len(xs) = 1 THEN xs[1]
    ELSE xs[1] \o sep \o Join(Tail(xs), sep)

\* Array.prototype.filter
RECURSIVE Filter(_, _)
Filter(xs, drop) ==
    IF Len(xs) = 0 THEN <<>>
    ELSE IF xs[1] = drop THEN Filter(Tail(xs), drop)
    ELSE <<xs[1]>> \o Filter(Tail(xs), drop)

StartsWith(s, p) == Len(s) >= Len(p) /\ SubSeq(s, 1, Len(p)) = p

EndsWith(s, p) == Len(s) >= Len(p) /\ SubSeq(s, Len(s) - Len(p) + 1, Len(s)) = p

\* thrown values: an Error carrying a message, a thrown value that has no
\* message property (a string, a plain object), and a thrown null/undefined
Error(m) == [kind |-> "Error", message |-> m]
PlainThrown == [kind |-> "plain"]
NullThrown == [kind |-> "nullish"]

\* `${error.message}` : reading .message of null/undefined raises a TypeError
MessageReadFails(e) == e.kind = "nullish"
MessageText(e) == IF e.kind = "Error" THEN e.message ELSE "undefined"
NullMessageTypeError == Error("Cannot read properties of null (reading 'message')")

\* continuation results
Await(prim, args) == [t |-> "await", prim |-> prim, args |-> args]
Return(v) == [t |-> "return", value |-> v]
Throw(e) == [t |-> "throw", error |-> e]

\* promise states
Pending == [state |-> "pending"]
Fulfilled(v) == [state |-> "fulfilled", value |-> v]
Rejected(e) == [state |-> "rejected", reason |-> e]

Void == "undefined"

----------------------------------------------------------------------------
(* The provider: what each primitive of the GitProvider interface may hand  *)
(* back.  The provider is the external git binding; these are sample values *)
(* of the interface's result types.                                         *)

CleanStatus ==
    [modified |-> <<>>, created |-> <<>>, deleted |-> <<>>, renamed |-> <<>>,
     conflicted |-> <<>>, not_added |-> <<>>, staged |-> <<>>,
     current |-> "main", tracking |-> "origin/main", ahead |-> 0, behind |-> 0,
     isClean |-> TRUE]

DirtyStatus ==
    [modified |-> <<"a.ts">>, created |-> <<>>, deleted |-> <<>>,
     renamed |-> <<[from |-> "old.ts", to |-> "new.ts"]>>,
     conflicted |-> <<>>, not_added |-> <<"n.ts">>, staged |-> <<"new.ts">>,
     current |-> "main", tracking |-> "origin/main", ahead |-> 1, behind |-> 0,
     isClean |-> FALSE]

\* "feature" is listed in all but has no entry in branches
SomeBranches ==
    [detached |-> FALSE, current |-> "main", all |-> <<"main", "feature">>,
     branches |-> ("main" :> [name |-> "main", commit |-> "abc123",
                              label |-> "main", current |-> TRUE])]

\* a detached HEAD: no branch is the current one
DetachedBranches ==
    [detached |-> TRUE, current |-> "abc123", all |-> <<"main">>,
     branches |-> ("main" :> [name |-> "main", commit |-> "def456",
                              label |-> "main", current |-> FALSE])]

SomeMerge ==
    [merges |-> <<"feature">>, conflicts |-> <<>>, result |-> "success",
     summary |-> [changes |-> 1, insertions |-> 1, deletions |-> 0]]

SomeDiffText == "diff --git a/file.txt b/file.txt"

\* the second file is binary: it carries no changes/insertions/deletions
SomeDiffSummary ==
    [files |-> <<[file |-> "file.txt", changes |-> 1, insertions |-> 1,
                  deletions |-> 0, binary |-> FALSE],
                 [file |-> "logo.png", binary |-> TRUE]>>,
     insertions |-> 1, deletions |-> 0, changed |-> 2]

CommitIds == {"def456", "0a1b2c"}

CommitResult(id) ==
    [commit |-> id, branch |-> "main", author |-> "Test User",
     summary |-> [changes |-> 1, insertions |-> 1, deletions |-> 0]]

LogEntry(h, m) ==
    [hash |-> h, date |-> "2024-01-01", message |-> m, author_name |-> "Test User",
     author_email |-> "test@example.com", body |-> "body of " \o h, refs |-> "HEAD"]

LogResult(all) ==
    [all |-> all, total |-> Len(all)]

SomeLogs ==
    { LogResult(<<>>),
      LogResult(<<LogEntry("def456", "Second commit"), LogEntry("abc123", "Initial commit")>>) }

SomeShowText == "commit abc123"

SomeStashList ==
    [all |-> <<[hash |-> "s1", date |-> "2024-01-01", message |-> "WIP", index |-> 0]>>,
     total |-> 1]

\* the second remote has no push url
SomeRemotes ==
    << [name |-> "origin", refs |-> [fetch |-> "https://h/u/repo.git",
                                      push |-> "https://h/u/repo.git"]],
       [name |-> "mirror", refs |-> [fetch |-> "https://m/u/repo.git", push |-> ""]] >>

\* the values a completed call of primitive prim (called with args) may have
ProviderReturns(prim, args) ==
    CASE prim = "checkIsRepo" -> BOOLEAN
      [] prim = "status"      -> {CleanStatus, DirtyStatus}
      [] prim = "branch"      -> IF Has(args, "args") THEN {Void}
                                 ELSE {SomeBranches, DetachedBranches}
      [] prim = "merge"       -> {SomeMerge}
      [] prim = "diff"        -> {SomeDiffText}
      [] prim = "diffSummary" -> {SomeDiffSummary}
      [] prim = "commit"      -> {CommitResult(id) : id \in CommitIds}
      [] prim = "log"         -> SomeLogs
      [] prim = "show"        -> {SomeShowText}
      [] prim = "raw"         -> {""}
      [] prim = "stashList"   -> {SomeStashList}
      [] prim = "getRemotes"  -> {SomeRemotes}
      [] OTHER                -> {Void}

\* the values a call of the provider may throw
ProviderThrows == {Error("boom"), PlainThrown, NullThrown}

----------------------------------------------------------------------------
(* The provider factory of the operation groups *)

\* variant: a module-level variable keeps the path of the call before, and
\* a call without repoPath falls back to it
getGitBasePath_lastPath(f) ==
    StrOr(f, "repoPath", StrOr(previous.request.args, "repoPath", cwd))

\* getGit up to its await: basePath = repoPath || process.cwd()
getGitBasePath(f) == StrOr(f, "repoPath", cwd)

\* required = true by default
getGitRequired(f) == IF Has(f, "required") THEN f.required ELSE TRUE

\* variant: the outcome of the repository check is not looked at
getGit_unchecked(f, checked, basePath) ==
    IF getGitRequired(f) /\ Len(checked) = 0 THEN Await("checkIsRepo", <<>>)
    ELSE Return(basePath)

\* getGit: f is the factory's argument object, checked the outcome of
\* checkIsRepo once it returned (<<>> before), basePath the path bound
getGit(f, checked, basePath) ==
    IF getGitRequired(f) /\ Len(checked) = 0 THEN Await("checkIsRepo", <<>>)
    ELSE IF getGitRequired(f) /\ ~checked[1]
         THEN Throw(Error("Not a git repository: " \o basePath))
    ELSE Return(basePath)

----------------------------------------------------------------------------
(* Repository management (src/git-tools/repository-management.ts) *)

RECURSIVE RenamedStrings(_)
\* status.renamed.map(r => `${r.from} -> ${r.to}`)
RenamedStrings(rs) ==
    IF Len(rs) = 0 THEN <<>>
    ELSE <<rs[1].from \o " -> " \o rs[1].to>> \o RenamedStrings(Tail(rs))

gitStatusData(status) ==
    [modified |-> status.modified, added |-> status.created, deleted |-> status.deleted,
     renamed |-> RenamedStrings(status.renamed), conflicted |-> status.conflicted,
     notAdded |-> status.not_added, staged |-> status.staged,
     current |-> status.current, tracking |-> status.tracking,
     ahead |-> status.ahead, behind |-> status.behind, isClean |-> status.isClean]

\* variant: the message does not look at the snapshot
gitStatus_alwaysClean(a, r) ==
    IF Len(r) = 0 THEN Await("status", <<>>)
    ELSE Return([success |-> TRUE,
                 message |-> "Working tree clean",
                 data |-> gitStatusData(r[1])])

gitStatus(a, r) ==
    IF Len(r) = 0 THEN Await("status", <<>>)
    ELSE Return([success |-> TRUE,
                 message |-> IF r[1].isClean THEN "Working tree clean"
                             ELSE "Working tree has changes",
                 data |-> gitStatusData(r[1])])

gitInit(a, r) ==
    IF Len(r) = 0 THEN Await("init", <<>>)
    ELSE Return([success |-> TRUE,
                 message |-> "Initialized empty Git repository in " \o StrOr(a, "repoPath", cwd)])

RECURSIVE StripTrailingSlashes(_)
StripTrailingSlashes(s) ==
    IF Len(s) > 1 /\ EndsWith(s, "/") THEN StripTrailingSlashes(SubSeq(s, 1, Len(s) - 1))
    ELSE s

LastSegment(s) ==
    IF \E i \in 1..Len(s) : SubSeq(s, i, i) = "/"
    THEN LET i == CHOOSE j \in 1..Len(s) : SubSeq(s, j, j) = "/"
                                           /\ \A k \in (j+1)..Len(s) : SubSeq(s, k, k) # "/"
         IN SubSeq(s, i + 1, Len(s))
    ELSE s

\* path.basename(p, ext)
Basename(p, ext) ==
    LET seg == LastSegment(StripTrailingSlashes(p))
    IN IF EndsWith(seg, ext) /\ seg # ext THEN SubSeq(seg, 1, Len(seg) - Len(ext)) ELSE seg

TypeErrorPathArgument ==
    Error("The \"path\" argument must be of type string. Received undefined")

gitCloneTarget(a) ==
    IF StrGiven(a, "targetPath") THEN a.targetPath ELSE Basename(a.url, ".git")

gitClone(a, r) ==
    IF ~StrGiven(a, "targetPath") /\ ~Has(a, "url") THEN Throw(TypeErrorPathArgument)
    ELSE IF Len(r) = 0
         THEN Await("clone", Pass(a, "url") @@ [targetPath |-> gitCloneTarget(a)])
    ELSE Return([success |-> TRUE,
                 message |-> "Cloned repository from " \o Interp(a, "url") \o " to "
                             \o gitCloneTarget(a)])

FailedToRepository(op) ==
    CASE op = "gitStatus" -> "get status"
      [] op = "gitInit"   -> "initialize repository"
      [] op = "gitClone"  -> "clone repository"

----------------------------------------------------------------------------
(* Branch operations (src/git-tools/branch-operations.ts) *)

RECURSIVE BranchInfos(_, _)
\* branches.all.map(name => ({name, current, commit}))
BranchInfos(names, branches) ==
    IF Len(names) = 0 THEN <<>>
    ELSE <<[name |-> names[1],
            current |-> names[1] = branches.current,
            commit |-> IF Has(branches.branches, names[1])
                       THEN StrOr(branches.branches[names[1]], "commit", "")
                       ELSE ""]>>
         \o BranchInfos(Tail(names), branches)

gitBranchList(a, r) ==
    IF Len(r) = 0 THEN Await("branch", <<>>)
    ELSE LET data == BranchInfos(r[1].all, r[1])
         IN Return([success |-> TRUE,
                    message |-> "Found " \o ToString(Len(data)) \o " branches",
                    data |-> data])

gitBranchCreate(a, r) ==
    IF Len(r) = 0 THEN Await("branch", [args |-> <<Elem(a, "branchName")>>])
    ELSE Return([success |-> TRUE,
                 message |-> "Created branch '" \o Interp(a, "branchName") \o "'"])

gitBranchDelete(a, r) ==
    LET deleteFlag == IF Flag(a, "force") THEN "-D" ELSE "-d"
    IN IF Len(r) = 0 THEN Await("branch", [args |-> <<deleteFlag, Elem(a, "branchName")>>])
       ELSE Return([success |-> TRUE,
                    message |-> "Deleted branch '" \o Interp(a, "branchName") \o "'"])

gitCheckout(a, r) ==
    IF Len(r) = 0
    THEN IF Flag(a, "createBranch")
         THEN Await("checkoutBranch", PassAs(a, "ref", "branchName") @@ [startPoint |-> "HEAD"])
         ELSE Await("checkout", Pass(a, "ref"))
    ELSE Return([success |-> TRUE,
                 message |-> IF Flag(a, "createBranch")
                             THEN "Created and switched to branch '" \o Interp(a, "ref") \o "'"
                             ELSE "Switched to '" \o Interp(a, "ref") \o "'"])

gitMerge(a, r) ==
    LET options == IF Flag(a, "noFastForward") THEN <<"--no-ff">> ELSE <<>>
    IN IF Len(r) = 0 THEN Await("merge", [args |-> options \o <<Elem(a, "branch")>>])
       ELSE Return([success |-> TRUE,
                    message |-> "Merged branch '" \o Interp(a, "branch") \o "'",
                    data |-> r[1]])

FailedToBranch(op) ==
    CASE op = "gitBranchList"   -> "list branches"
      [] op = "gitBranchCreate" -> "create branch"
      [] op = "gitBranchDelete" -> "delete branch"
      [] op = "gitCheckout"     -> "checkout"
      [] op = "gitMerge"        -> "merge"

----------------------------------------------------------------------------
(* File operations (src/git-tools/file-operations.ts) *)

TypeErrorLength == Error("Cannot read properties of undefined (reading 'length')")
TypeErrorNotIterable == Error("args.files is not iterable")

\* variant: the range operator is always ".."
gitDiffRange_alwaysTwoDots(a) ==
    IF StrGiven(a, "fromCommit") /\ StrGiven(a, "toCommit")
    THEN <<a.fromCommit \o ".." \o a.toCommit>>
    ELSE IF StrGiven(a, "fromCommit") THEN <<a.fromCommit>>
    ELSE IF StrGiven(a, "toCommit") THEN <<a.toCommit>>
    ELSE <<>>

\* the range part of gitDiff's argument list
gitDiffRange(a) ==
    IF StrGiven(a, "fromCommit") \/ StrGiven(a, "toCommit")
    THEN IF StrGiven(a, "fromCommit") /\ StrGiven(a, "toCommit")
         THEN LET rangeOperator == IF Flag(a, "useThreeDotRange") THEN "..." ELSE ".."
              IN <<a.fromCommit \o rangeOperator \o a.toCommit>>
         ELSE IF StrGiven(a, "fromCommit") THEN <<a.fromCommit>>
         ELSE <<a.toCommit>>
    ELSE <<>>

\* gitDiff's diffArgs
gitDiffArgs(a) ==
    (IF Flag(a, "cached") THEN <<"--cached">> ELSE <<>>)
    \o gitDiffRange(a)
    \o (IF NonEmptyList(a, "files") THEN <<"--">> \o a.files ELSE <<>>)

\* gitDiff's summaryArgs
gitDiffSummaryArgs(a) == Filter(gitDiffArgs(a), "--")

RECURSIVE DiffFiles(_, _)
\* diffSummary.files.map(f => ({file, changes, insertions, deletions[, binary]}))
DiffFiles(fs, withBinary) ==
    IF Len(fs) = 0 THEN <<>>
    ELSE LET f == fs[1]
             row == [file |-> f.file,
                     changes |-> IF Has(f, "changes") THEN f.changes ELSE 0,
                     insertions |-> IF Has(f, "insertions") THEN f.insertions ELSE 0,
                     deletions |-> IF Has(f, "deletions") THEN f.deletions ELSE 0]
         IN <<IF withBinary THEN row @@ [binary |-> f.binary] ELSE row>>
            \o DiffFiles(Tail(fs), withBinary)

DiffData(diffSummary, withBinary) ==
    [files |-> DiffFiles(diffSummary.files, withBinary),
     insertions |-> diffSummary.insertions,
     deletions |-> diffSummary.deletions,
     changed |-> diffSummary.changed]

\* `${args.files?.length || 'all'}`
FileCountOrAll(a) ==
    IF NonEmptyList(a, "files") THEN ToString(Len(a.files)) ELSE "all"

\* variant: the staged case is looked at before the commit cases
gitDiffMessage_cachedFirst(a) ==
    IF Flag(a, "cached") THEN "Diff for staged changes"
    ELSE IF StrGiven(a, "fromCommit") /\ StrGiven(a, "toCommit")
    THEN "Diff for " \o a.fromCommit
             \o (IF Flag(a, "useThreeDotRange") THEN "..." ELSE "..") \o a.toCommit
    ELSE IF StrGiven(a, "fromCommit") THEN "Diff from " \o a.fromCommit \o " to working tree"
    ELSE IF StrGiven(a, "toCommit") THEN "Diff to " \o a.toCommit
    ELSE "Diff for " \o FileCountOrAll(a) \o " file(s)"

gitDiffMessage(a) ==
    IF StrGiven(a, "fromCommit") /\ StrGiven(a, "toCommit")
    THEN LET rangeOperator == IF Flag(a, "useThreeDotRange") THEN "..." ELSE ".."
         IN "Diff for " \o a.fromCommit \o rangeOperator \o a.toCommit
    ELSE IF StrGiven(a, "fromCommit") THEN "Diff from " \o a.fromCommit \o " to working tree"
    ELSE IF StrGiven(a, "toCommit") THEN "Diff to " \o a.toCommit
    ELSE IF Flag(a, "cached") THEN "Diff for staged changes"
    ELSE "Diff for " \o FileCountOrAll(a) \o " file(s)"

\* variant: the response is built from the diff text alone
gitDiff_withoutSummary(a, r) ==
    IF Len(r) = 0 THEN Await("diff", [args |-> gitDiffArgs(a)])
    ELSE Return([success |-> TRUE,
                 message |-> gitDiffMessage(a),
                 data |-> [diff |-> r[1]]])

gitDiff(a, r) ==
    IF Len(r) = 0 THEN Await("diff", [args |-> gitDiffArgs(a)])
    ELSE IF Len(r) = 1 THEN Await("diffSummary", [args |-> gitDiffSummaryArgs(a)])
    ELSE Return([success |-> TRUE,
                 message |-> gitDiffMessage(a),
                 data |-> [summary |-> DiffData(r[2], TRUE), diff |-> r[1]]])

gitAdd(a, r) ==
    IF Len(r) = 0 THEN Await("add", Pass(a, "files"))
    ELSE IF ~Has(a, "files") THEN Throw(TypeErrorLength)
    ELSE Return([success |-> TRUE,
                 message |-> "Staged " \o ToString(Len(a.files)) \o " file(s): "
                             \o Join(a.files, ", ")])

\* variant: the commit argument is ignored, HEAD is always the target
gitReset_alwaysHead(a, r) ==
    IF NonEmptyList(a, "files")
    THEN IF Len(r) = 0 THEN Await("reset", [args |-> <<"HEAD">> \o a.files])
         ELSE Return([success |-> TRUE,
                      message |-> "Unstaged " \o ToString(Len(a.files)) \o " file(s): "
                                  \o Join(a.files, ", ")])
    ELSE LET mode == StrOr(a, "mode", "mixed")
         IN IF Len(r) = 0 THEN Await("reset", [args |-> <<"--" \o mode, "HEAD">>])
            ELSE Return([success |-> TRUE,
                         message |-> "Reset to HEAD (" \o mode \o " mode)"])

gitReset(a, r) ==
    IF NonEmptyList(a, "files")
    THEN LET ref == StrOr(a, "commit", "HEAD")
         IN IF Len(r) = 0 THEN Await("reset", [args |-> <<ref>> \o a.files])
            ELSE Return([success |-> TRUE,
                         message |-> "Unstaged " \o ToString(Len(a.files)) \o " file(s): "
                                     \o Join(a.files, ", ")])
    ELSE LET mode == StrOr(a, "mode", "mixed")
             target == StrOr(a, "commit", "HEAD")
         IN IF Len(r) = 0 THEN Await("reset", [args |-> <<"--" \o mode, target>>])
            ELSE Return([success |-> TRUE,
                         message |-> "Reset to " \o target \o " (" \o mode \o " mode)"])

gitRestore(a, r) ==
    IF ~Has(a, "files") THEN Throw(TypeErrorNotIterable)
    ELSE LET options == IF Flag(a, "staged") THEN <<"--staged">> \o a.files ELSE a.files
         IN IF Len(r) = 0 THEN Await("raw", [args |-> <<"restore">> \o options])
            ELSE Return([success |-> TRUE,
                         message |-> "Restored " \o ToString(Len(a.files))
                                     \o (IF Flag(a, "staged") THEN " file(s) from staging"
                                         ELSE " file(s) from HEAD")])

FailedToFile(op) ==
    CASE op = "gitDiff"    -> "get diff"
      [] op = "gitAdd"     -> "stage files"
      [] op = "gitReset"   -> "reset"
      [] op = "gitRestore" -> "restore files"

----------------------------------------------------------------------------
(* Commit operations (configureCommitOperations) *)

Null == [js |-> "null"]

\* a number-valued property that is truthy: present and not 0
NumGiven(o, k) == Has(o, k) /\ o[k] # 0

gitCommitOptions(a) == IF Flag(a, "amend") THEN ("--amend" :> Null) ELSE <<>>

\* variant: the files are never staged
gitCommit_unstaged(a, r) ==
    IF Len(r) = 0
    THEN Await("commit", Pass(a, "message") @@ [options |-> gitCommitOptions(a)])
    ELSE Return([success |-> TRUE,
                 message |-> "Committed changes: " \o r[1].commit,
                 data |-> [commit |-> r[1].commit, summary |-> r[1].summary]])

gitCommit(a, r) ==
    LET commitCall == Await("commit", Pass(a, "message") @@ [options |-> gitCommitOptions(a)])
        done(res) == Return([success |-> TRUE,
                             message |-> "Committed changes: " \o res.commit,
                             data |-> [commit |-> res.commit, summary |-> res.summary]])
    IN IF NonEmptyList(a, "files")
       THEN IF Len(r) = 0 THEN Await("add", [files |-> a.files])
            ELSE IF Len(r) = 1 THEN commitCall
            ELSE done(r[2])
       ELSE IF Len(r) = 0 THEN commitCall
            ELSE done(r[1])

RECURSIVE CommitInfos(_)
\* log.all.map(commit => ({hash, date, message, author_name, author_email}))
CommitInfos(cs) ==
    IF Len(cs) = 0 THEN <<>>
    ELSE <<[hash |-> cs[1].hash, date |-> cs[1].date, message |-> cs[1].message,
            author_name |-> cs[1].author_name, author_email |-> cs[1].author_email]>>
         \o CommitInfos(Tail(cs))

gitLogOptions(a) ==
    (IF NumGiven(a, "maxCount") THEN "maxCount" :> a.maxCount ELSE <<>>)
    @@ (IF StrGiven(a, "file") THEN "file" :> a.file ELSE <<>>)

gitLog(a, r) ==
    IF Len(r) = 0 THEN Await("log", [options |-> gitLogOptions(a)])
    ELSE LET commits == CommitInfos(r[1].all)
         IN Return([success |-> TRUE,
                    message |-> "Retrieved " \o ToString(Len(commits)) \o " commit(s)",
                    data |-> commits])

gitShow(a, r) ==
    LET ref == StrOr(a, "ref", "HEAD")
    IN IF Len(r) = 0 THEN Await("show", [args |-> <<ref>>])
       ELSE Return([success |-> TRUE, message |-> "Details for " \o ref, data |-> r[1]])

FailedToCommit(op) ==
    CASE op = "gitCommit" -> "commit"
      [] op = "gitLog"    -> "get log"
      [] op = "gitShow"   -> "show commit"

----------------------------------------------------------------------------
(* Advanced operations (configureAdvancedOperations) *)

gitRebase(a, r) ==
    LET options == IF Flag(a, "interactive") THEN <<"-i", Elem(a, "branch")>>
                   ELSE <<Elem(a, "branch")>>
    IN IF Len(r) = 0 THEN Await("rebase", [args |-> options])
       ELSE Return([success |-> TRUE,
                    message |-> "Rebased onto '" \o Interp(a, "branch") \o "'"])

gitStash(a, r) ==
    LET options == <<"push">>
                   \o (IF Flag(a, "includeUntracked") THEN <<"-u">> ELSE <<>>)
                   \o (IF StrGiven(a, "message") THEN <<"-m", a.message>> ELSE <<>>)
    IN IF Len(r) = 0 THEN Await("stash", [args |-> options])
       ELSE Return([success |-> TRUE,
                    message |-> IF StrGiven(a, "message")
                                THEN "Stashed changes: " \o a.message
                                ELSE "Stashed changes"])

\* `stash@{${args.index}}`
StashRef(a) == "stash@{" \o ToString(a.index) \o "}"

\* variant: the index is tested for truthiness, so index 0 pops bare
gitStashPop_truthyIndex(a, r) ==
    LET options == <<"pop">> \o (IF NumGiven(a, "index") THEN <<StashRef(a)>> ELSE <<>>)
    IN IF Len(r) = 0 THEN Await("stash", [args |-> options])
       ELSE Return([success |-> TRUE,
                    message |-> IF NumGiven(a, "index") THEN "Applied " \o StashRef(a)
                                ELSE "Applied most recent stash"])

gitStashPop(a, r) ==
    LET options == <<"pop">> \o (IF Has(a, "index") THEN <<StashRef(a)>> ELSE <<>>)
    IN IF Len(r) = 0 THEN Await("stash", [args |-> options])
       ELSE Return([success |-> TRUE,
                    message |-> IF Has(a, "index") THEN "Applied " \o StashRef(a)
                                ELSE "Applied most recent stash"])

gitStashList(a, r) ==
    IF Len(r) = 0 THEN Await("stashList", <<>>)
    ELSE Return([success |-> TRUE,
                 message |-> "Found " \o ToString(r[1].total) \o " stash(es)",
                 data |-> r[1].all])

gitCherryPick(a, r) ==
    IF Len(r) = 0 THEN Await("raw", [args |-> <<"cherry-pick", Elem(a, "commit")>>])
    ELSE Return([success |-> TRUE, message |-> "Cherry-picked commit " \o Interp(a, "commit")])

FailedToAdvanced(op) ==
    CASE op = "gitRebase"     -> "rebase"
      [] op = "gitStash"      -> "stash"
      [] op = "gitStashPop"   -> "pop stash"
      [] op = "gitStashList"  -> "list stashes"
      [] op = "gitCherryPick" -> "cherry-pick"

----------------------------------------------------------------------------
(* Remote operations (src/git-tools/remote-operations.ts) *)

RECURSIVE RemoteInfos(_)
\* remotes.map(remote => ({name, refs: {fetch: fetch || '', push: push || ''}}))
RemoteInfos(rs) ==
    IF Len(rs) = 0 THEN <<>>
    ELSE <<[name |-> rs[1].name,
            refs |-> [fetch |-> StrOr(rs[1].refs, "fetch", ""),
                      push |-> StrOr(rs[1].refs, "push", "")]]>>
         \o RemoteInfos(Tail(rs))

gitRemoteList(a, r) ==
    IF Len(r) = 0 THEN Await("getRemotes", [verbose |-> TRUE])
    ELSE LET data == RemoteInfos(r[1])
         IN Return([success |-> TRUE,
                    message |-> "Found " \o ToString(Len(data)) \o " remote(s)",
                    data |-> data])

gitRemoteAdd(a, r) ==
    IF Len(r) = 0 THEN Await("addRemote", Pass(a, "name") @@ Pass(a, "url"))
    ELSE Return([success |-> TRUE,
                 message |-> "Added remote '" \o Interp(a, "name") \o "' ("
                             \o Interp(a, "url") \o ")"])

\* variant: the message names the branch whenever one was supplied
gitFetch_branchInMessage(a, r) ==
    IF Len(r) = 0
    THEN IF StrGiven(a, "remote") /\ StrGiven(a, "branch")
         THEN Await("fetch", [remote |-> a.remote, branch |-> a.branch])
         ELSE IF StrGiven(a, "remote") THEN Await("fetch", [remote |-> a.remote])
         ELSE Await("fetch", <<>>)
    ELSE Return([success |-> TRUE,
                 message |-> IF StrGiven(a, "branch")
                             THEN "Fetched from '" \o StrOr(a, "remote", "origin") \o "' ("
                                  \o a.branch \o ")"
                             ELSE IF StrGiven(a, "remote")
                             THEN "Fetched from '" \o a.remote \o "'"
                             ELSE "Fetched from all remotes"])

gitFetch(a, r) ==
    IF Len(r) = 0
    THEN IF StrGiven(a, "remote") /\ StrGiven(a, "branch")
         THEN Await("fetch", [remote |-> a.remote, branch |-> a.branch])
         ELSE IF StrGiven(a, "remote") THEN Await("fetch", [remote |-> a.remote])
         ELSE Await("fetch", <<>>)
    ELSE Return([success |-> TRUE,
                 message |-> IF StrGiven(a, "remote")
                             THEN "Fetched from '" \o a.remote \o "'"
                                  \o (IF StrGiven(a, "branch") THEN " (" \o a.branch \o ")"
                                      ELSE "")
                             ELSE "Fetched from all remotes"])

\* `${args.remote || 'origin'}${args.branch ? `/${args.branch}` : ''}`
RemoteSlashBranch(a) ==
    StrOr(a, "remote", "origin") \o (IF StrGiven(a, "branch") THEN "/" \o a.branch ELSE "")

gitPull(a, r) ==
    LET options == IF Flag(a, "rebase") THEN ("--rebase" :> Null) ELSE <<>>
    IN IF Len(r) = 0
       THEN Await("pull", Pass(a, "remote") @@ Pass(a, "branch") @@ [options |-> options])
       ELSE Return([success |-> TRUE, message |-> "Pulled from " \o RemoteSlashBranch(a)])

\* variant: the options are pushed in the other order
gitPush_upstreamFirst(a, r) ==
    LET options == (IF Flag(a, "setUpstream") THEN <<"--set-upstream">> ELSE <<>>)
                   \o (IF Flag(a, "force") THEN <<"--force">> ELSE <<>>)
    IN IF Len(r) = 0
       THEN Await("push", Pass(a, "remote") @@ Pass(a, "branch") @@ [options |-> options])
       ELSE Return([success |-> TRUE, message |-> "Pushed to " \o RemoteSlashBranch(a)])

gitPush(a, r) ==
    LET options == (IF Flag(a, "force") THEN <<"--force">> ELSE <<>>)
                   \o (IF Flag(a, "setUpstream") THEN <<"--set-upstream">> ELSE <<>>)
    IN IF Len(r) = 0
       THEN Await("push", Pass(a, "remote") @@ Pass(a, "branch") @@ [options |-> options])
       ELSE Return([success |-> TRUE, message |-> "Pushed to " \o RemoteSlashBranch(a)])

FailedToRemote(op) ==
    CASE op = "gitRemoteList" -> "list remotes"
      [] op = "gitRemoteAdd"  -> "add remote"
      [] op = "gitFetch"      -> "fetch"
      [] op = "gitPull"       -> "pull"
      [] op = "gitPush"       -> "push"

----------------------------------------------------------------------------
(* The operations of the six groups, as configured with the getGit factory *)

RepositoryOps == {"gitStatus", "gitInit", "gitClone"}
BranchOps == {"gitBranchList", "gitBranchCreate", "gitBranchDelete", "gitCheckout", "gitMerge"}
FileOps == {"gitDiff", "gitAdd", "gitReset", "gitRestore"}
CommitOps == {"gitCommit", "gitLog", "gitShow"}
AdvancedOps == {"gitRebase", "gitStash", "gitStashPop", "gitStashList", "gitCherryPick"}
RemoteOps == {"gitRemoteList", "gitRemoteAdd", "gitFetch", "gitPull", "gitPush"}

Operations ==
    RepositoryOps \cup BranchOps \cup FileOps \cup CommitOps \cup AdvancedOps \cup RemoteOps

\* variant: every operation asks for a checked repository
FactoryArgs_alwaysRequired(op, a) == Pass(a, "repoPath")

\* the argument each operation hands to the factory
FactoryArgs(op, a) ==
    IF op \in {"gitInit", "gitClone"}
    THEN Pass(a, "repoPath") @@ [required |-> FALSE]
    ELSE Pass(a, "repoPath")

\* the body of operation op after it obtained its provider
OperationBody(op, a, r) ==
    CASE op = "gitStatus"       -> gitStatus(a, r)
      [] op = "gitInit"         -> gitInit(a, r)
      [] op = "gitClone"        -> gitClone(a, r)
      [] op = "gitBranchList"   -> gitBranchList(a, r)
      [] op = "gitBranchCreate" -> gitBranchCreate(a, r)
      [] op = "gitBranchDelete" -> gitBranchDelete(a, r)
      [] op = "gitCheckout"     -> gitCheckout(a, r)
      [] op = "gitMerge"        -> gitMerge(a, r)
      [] op = "gitDiff"         -> gitDiff(a, r)
      [] op = "gitAdd"          -> gitAdd(a, r)
      [] op = "gitReset"        -> gitReset(a, r)
      [] op = "gitRestore"      -> gitRestore(a, r)
      [] op = "gitCommit"       -> gitCommit(a, r)
      [] op = "gitLog"          -> gitLog(a, r)
      [] op = "gitShow"         -> gitShow(a, r)
      [] op = "gitRebase"       -> gitRebase(a, r)
      [] op = "gitStash"        -> gitStash(a, r)
      [] op = "gitStashPop"     -> gitStashPop(a, r)
      [] op = "gitStashList"    -> gitStashList(a, r)
      [] op = "gitCherryPick"   -> gitCherryPick(a, r)
      [] op = "gitRemoteList"   -> gitRemoteList(a, r)
      [] op = "gitRemoteAdd"    -> gitRemoteAdd(a, r)
      [] op = "gitFetch"        -> gitFetch(a, r)
      [] op = "gitPull"         -> gitPull(a, r)
      [] op = "gitPush"         -> gitPush(a, r)

\* the fixed phrase of operation op's catch block
FailedTo(op) ==
    CASE op \in RepositoryOps -> FailedToRepository(op)
      [] op \in BranchOps     -> FailedToBranch(op)
      [] op \in FileOps       -> FailedToFile(op)
      [] op \in CommitOps     -> FailedToCommit(op)
      [] op \in AdvancedOps   -> FailedToAdvanced(op)
      [] op \in RemoteOps     -> FailedToRemote(op)

\* variant: the catch block reports the phrase and drops the fault's message
OperationCatch_dropsMessage(op, e) ==
    Fulfilled([success |-> FALSE, message |-> "Failed to " \o FailedTo(op)])

\* variant: the catch block returns the fault's message without its prefix
OperationCatch_bareMessage(op, e) ==
    IF MessageReadFails(e) THEN Rejected(NullMessageTypeError)
    ELSE Fulfilled([success |-> FALSE, message |-> MessageText(e)])

\* catch (error: any) { return {success: false, message: `Failed to ...: ${error.message}`} }
\* evaluating the template throws when error is null or undefined
OperationCatch(op, e) ==
    IF MessageReadFails(e) THEN Rejected(NullMessageTypeError)
    ELSE Fulfilled([success |-> FALSE,
                    message |-> "Failed to " \o FailedTo(op) \o ": " \o MessageText(e)])

----------------------------------------------------------------------------
(* The single-file module git-tools.ts the dispatcher imports *)

\* verifyGitRepo: checked is the outcome of checkIsRepo once it returned.
\* Returns an error envelope, or Null when the path is a repository.
verifyGitRepo(a, checked) ==
    IF Len(checked) = 0 THEN Await("checkIsRepo", <<>>)
    ELSE IF ~checked[1]
         THEN Return([success |-> FALSE,
                      message |-> "Not a git repository: " \o StrOr(a, "repoPath", cwd)])
    ELSE Return(Null)

\* verifyGitRepo's own catch block
verifyGitRepoCatch(e) ==
    IF MessageReadFails(e) THEN Throw(NullMessageTypeError)
    ELSE Return([success |-> FALSE,
                 message |-> "Error verifying repository: " \o MessageText(e)])

\* gitInit and gitClone do not verify the repository
legacyVerifies(op) == op \notin {"gitInit", "gitClone"}

\* args.files || []
FilesOrEmpty(a) == IF Has(a, "files") THEN a.files ELSE <<>>

\* gitDiff of git-tools.ts: files and cached only
legacyGitDiff(a, r) ==
    IF Len(r) = 0
    THEN IF Flag(a, "cached") THEN Await("diff", [args |-> <<"--cached">> \o FilesOrEmpty(a)])
         ELSE Await("diff", [args |-> FilesOrEmpty(a)])
    ELSE IF Len(r) = 1
         THEN Await("diffSummary", [args |-> IF Flag(a, "cached") THEN <<"--cached">> ELSE <<>>])
    ELSE Return([success |-> TRUE,
                 message |-> "Diff for " \o FileCountOrAll(a) \o " file(s)",
                 data |-> [summary |-> DiffData(r[2], FALSE), diff |-> r[1]]])

\* the exported functions of git-tools.ts after their repository check: all
\* but gitDiff have the same statements as the operations of the groups
legacyBody(op, a, r) ==
    IF op = "gitDiff" THEN legacyGitDiff(a, r) ELSE OperationBody(op, a, r)

----------------------------------------------------------------------------
(* The tool catalog and the dispatcher (src/index.ts) *)

Tool(name, properties, required, annotations) ==
    [name |-> name, properties |-> properties, required |-> required,
     annotations |-> annotations]

ReadOnly == {"readOnly"}
Dangerous == {"dangerous", "requiresConfirmation"}

tools ==
    << Tool("git_status", {"repoPath"}, {}, ReadOnly),
       Tool("git_init", {"repoPath"}, {}, {}),
       Tool("git_clone", {"url", "targetPath", "repoPath"}, {"url"}, {}),
       Tool("git_branch_list", {"repoPath"}, {}, ReadOnly),
       Tool("git_branch_create", {"branchName", "repoPath"}, {"branchName"}, {}),
       Tool("git_branch_delete", {"branchName", "force", "repoPath"}, {"branchName"}, Dangerous),
       Tool("git_checkout", {"ref", "createBranch", "repoPath"}, {"ref"}, {}),
       Tool("git_merge", {"branch", "noFastForward", "repoPath"}, {"branch"}, {}),
       Tool("git_diff", {"files", "cached", "fromCommit", "toCommit", "useThreeDotRange",
                         "repoPath"}, {}, ReadOnly),
       Tool("git_add", {"files", "repoPath"}, {"files"}, {}),
       Tool("git_reset", {"files", "mode", "commit", "repoPath"}, {}, Dangerous),
       Tool("git_restore", {"files", "staged", "repoPath"}, {"files"}, Dangerous),
       Tool("git_commit", {"message", "files", "amend", "repoPath"}, {"message"}, {}),
       Tool("git_log", {"maxCount", "file", "repoPath"}, {}, ReadOnly),
       Tool("git_show", {"ref", "repoPath"}, {}, ReadOnly),
       Tool("git_rebase", {"branch", "interactive", "repoPath"}, {"branch"}, Dangerous),
       Tool("git_stash", {"message", "includeUntracked", "repoPath"}, {}, {}),
       Tool("git_stash_pop", {"index", "repoPath"}, {}, {}),
       Tool("git_stash_list", {"repoPath"}, {}, ReadOnly),
       Tool("git_cherry_pick", {"commit", "repoPath"}, {"commit"}, {}),
       Tool("git_remote_list", {"repoPath"}, {}, ReadOnly),
       Tool("git_remote_add", {"name", "url", "repoPath"}, {"name", "url"}, {}),
       Tool("git_fetch", {"remote", "branch", "repoPath"}, {}, ReadOnly),
       Tool("git_pull", {"remote", "branch", "rebase", "repoPath"}, {}, {}),
       Tool("git_push", {"remote", "branch", "force", "setUpstream", "repoPath"}, {}, Dangerous) >>

\* the own properties of the toolHandlers object: tool name -> function of git-tools.ts
\* variant: git_fetch is served by gitPull
toolHandlers_fetchPulls ==
    [git_status |-> "gitStatus", git_init |-> "gitInit", git_clone |-> "gitClone",
     git_branch_list |-> "gitBranchList", git_branch_create |-> "gitBranchCreate",
     git_branch_delete |-> "gitBranchDelete", git_checkout |-> "gitCheckout",
     git_merge |-> "gitMerge",
     git_diff |-> "gitDiff", git_add |-> "gitAdd", git_reset |-> "gitReset",
     git_restore |-> "gitRestore",
     git_commit |-> "gitCommit", git_log |-> "gitLog", git_show |-> "gitShow",
     git_rebase |-> "gitRebase", git_stash |-> "gitStash", git_stash_pop |-> "gitStashPop",
     git_stash_list |-> "gitStashList", git_cherry_pick |-> "gitCherryPick",
     git_remote_list |-> "gitRemoteList", git_remote_add |-> "gitRemoteAdd",
     git_fetch |-> "gitPull", git_pull |-> "gitPull", git_push |-> "gitPush"]

toolHandlers ==
    [git_status |-> "gitStatus", git_init |-> "gitInit", git_clone |-> "gitClone",
     git_branch_list |-> "gitBranchList", git_branch_create |-> "gitBranchCreate",
     git_branch_delete |-> "gitBranchDelete", git_checkout |-> "gitCheckout",
     git_merge |-> "gitMerge",
     git_diff |-> "gitDiff", git_add |-> "gitAdd", git_reset |-> "gitReset",
     git_restore |-> "gitRestore",
     git_commit |-> "gitCommit", git_log |-> "gitLog", git_show |-> "gitShow",
     git_rebase |-> "gitRebase", git_stash |-> "gitStash", git_stash_pop |-> "gitStashPop",
     git_stash_list |-> "gitStashList", git_cherry_pick |-> "gitCherryPick",
     git_remote_list |-> "gitRemoteList", git_remote_add |-> "gitRemoteAdd",
     git_fetch |-> "gitFetch", git_pull |-> "gitPull", git_push |-> "gitPush"]

\* toolHandlers is an object literal: a name that is not an own property is
\* looked up on Object.prototype.  The inherited properties modelled:
\*   constructor (the function Object), toString (a function),
\*   __proto__ (an object, not a function)
ObjectPrototypeNames == {"constructor", "toString", "__proto__"}

\* variant: the table has no handler for git_push
LookupHandler_withoutPush(name) ==
    IF name \in DOMAIN toolHandlers \ {"git_push"}
    THEN [t |-> "own", fn |-> toolHandlers[name]]
    ELSE IF name \in ObjectPrototypeNames THEN [t |-> "inherited", key |-> name]
    ELSE [t |-> "undefined"]

\* const handler = toolHandlers[name]
LookupHandler(name) ==
    IF name \in DOMAIN toolHandlers THEN [t |-> "own", fn |-> toolHandlers[name]]
    ELSE IF name \in ObjectPrototypeNames THEN [t |-> "inherited", key |-> name]
    ELSE [t |-> "undefined"]

\* what calling an inherited property as handler(args || {}) does:
\*   Object(args) returns args; Object.prototype.toString() with no receiver
\*   returns "[object Undefined]"; calling a non-function throws a TypeError
CallInherited(key, a) ==
    CASE key = "constructor" -> Fulfilled(a)
      [] key = "toString"    -> Fulfilled([js |-> "string", value |-> "[object Undefined]"])
      [] key = "__proto__"   -> Rejected(Error("handler is not a function"))

\* JSON.stringify(v): the text, represented by the JSON document it encodes
JSONStringify(v) == [json |-> v]

\* { content: [ { type: 'text', text } ] }
TextReply(text) == [kind |-> "content", content |-> <<[type |-> "text", text |-> text]>>]

UnknownToolReply(name) ==
    TextReply(JSONStringify([success |-> FALSE, message |-> "Unknown tool: " \o name]))

\* variant: the listing leaves out the first entry of the catalog
ListToolsReply_withoutFirst == [kind |-> "tools", tools |-> Tail(tools)]

\* the ListToolsRequestSchema handler's reply: { tools }
ListToolsReply == [kind |-> "tools", tools |-> tools]

\* the handler's try/catch around `await handler(args || {})`
DispatcherReply(res) ==
    IF res.state = "fulfilled" THEN TextReply(JSONStringify(res.value))
    ELSE IF MessageReadFails(res.reason) THEN [kind |-> "fault", error |-> NullMessageTypeError]
    ELSE TextReply(JSONStringify([success |-> FALSE,
                                  message |-> "Error executing tool: "
                                              \o MessageText(res.reason)]))

----------------------------------------------------------------------------
(* Inputs *)

MaxFiles == 2

AllFiles == <<"a.ts", "b.ts", "c.ts">>

\* a file list naming the file "--"
SeparatorNamedFile == <<"--">>

\* a file list naming the file "--hard"
FlagNamedFile == <<"--hard">>

\* the file lists of length 0..MaxFiles
FileLists == {SubSeq(AllFiles, 1, n) : n \in 0..MaxFiles}

\* an optional property: absent, or one of the values S
Opt(k, S) == {<<>>} \cup {k :> v : v \in S}

\* a required property
Req(k, S) == {k :> v : v \in S}

RepoPathOpt == Opt("repoPath", {"", "/repo"})

Urls == {"https://h/u/repo.git", "https://h/u/repo/"}

\* the argument bags each operation is called with, without repoPath
OwnArgBags(op) ==
    CASE op \in {"gitStatus", "gitInit", "gitBranchList", "gitStashList", "gitRemoteList"} ->
           {<<>>}
      [] op = "gitClone" ->
           {u @@ t : u \in Req("url", Urls), t \in Opt("targetPath", {"dest"})}
      [] op = "gitBranchCreate" -> Req("branchName", {"feature"})
      [] op = "gitBranchDelete" ->
           {b @@ f : b \in Req("branchName", {"feature"}), f \in Opt("force", BOOLEAN)}
      [] op = "gitCheckout" ->
           {x @@ c : x \in Req("ref", {"main"}), c \in Opt("createBranch", BOOLEAN)}
      [] op = "gitMerge" ->
           {b @@ n : b \in Req("branch", {"feature"}), n \in Opt("noFastForward", BOOLEAN)}
      [] op = "gitDiff" ->
           {f @@ c @@ x @@ y @@ t :
               f \in Opt("files", FileLists \cup {SeparatorNamedFile}),
               c \in Opt("cached", BOOLEAN),
               x \in Opt("fromCommit", {"", "abc123"}), y \in Opt("toCommit", {"def456"}),
               t \in Opt("useThreeDotRange", {TRUE})}
      [] op = "gitAdd" -> Opt("files", FileLists)
      [] op = "gitReset" ->
           {f @@ m @@ c : f \in Opt("files", FileLists \cup {FlagNamedFile}),
                          m \in Opt("mode", {"soft", "hard"}),
                          c \in Opt("commit", {"HEAD~1"})}
      [] op = "gitRestore" ->
           {f @@ s : f \in Opt("files", FileLists), s \in Opt("staged", BOOLEAN)}
      [] op = "gitCommit" ->
           {m @@ f @@ x : m \in Req("message", {"m"}), f \in Opt("files", FileLists),
                          x \in Opt("amend", BOOLEAN)}
      [] op = "gitLog" ->
           {n @@ f : n \in Opt("maxCount", {0, 5}), f \in Opt("file", {"a.ts"})}
      [] op = "gitShow" -> Opt("ref", {"", "abc123"})
      [] op = "gitRebase" ->
           {b @@ i : b \in Req("branch", {"main"}), i \in Opt("interactive", BOOLEAN)}
      [] op = "gitStash" ->
           {m @@ u : m \in Opt("message", {"", "wip"}), u \in Opt("includeUntracked", BOOLEAN)}
      [] op = "gitStashPop" -> Opt("index", {0, 1})
      [] op = "gitCherryPick" -> Req("commit", {"abc123"})
      [] op = "gitRemoteAdd" ->
           {n @@ u : n \in Req("name", {"origin"}), u \in Req("url", {"https://h/u/repo.git"})}
      [] op = "gitFetch" ->
           {x @@ b : x \in Opt("remote", {"origin"}), b \in Opt("branch", {"main"})}
      [] op = "gitPull" ->
           {x @@ b @@ o : x \in Opt("remote", {"origin"}), b \in Opt("branch", {"main"}),
                          o \in Opt("rebase", BOOLEAN)}
      [] op = "gitPush" ->
           {x @@ b @@ f @@ s : x \in Opt("remote", {"origin"}), b \in Opt("branch", {"main"}),
                               f \in Opt("force", BOOLEAN), s \in Opt("setUpstream", BOOLEAN)}

\* with repoPath, and the empty bag (no argument validated by the code)
ArgBags(op) == {a @@ p : a \in OwnArgBags(op), p \in RepoPathOpt} \cup {<<>>}

\* tool names a client may send: the catalog's, names no object has, and
\* names every object inherits
ToolNames == {tools[i].name : i \in 1..Len(tools)}
ForeignNames == {"git_blame", ""} \cup ObjectPrototypeNames
RequestNames == ToolNames \cup ForeignNames

\* the argument bags sent with a tool name
ToolArgBags(name) ==
    IF name \in DOMAIN toolHandlers THEN ArgBags(toolHandlers[name])
    ELSE {<<>>, [repoPath |-> "/repo"]}

----------------------------------------------------------------------------
(* State machine *)

NoRequest == [via |-> "none", tool |-> "", name |-> "", hasArgs |-> FALSE, args |-> <<>>]
NoResult == [state |-> "none"]
NoReply == [kind |-> "none"]
NoPrevious == [request |-> NoRequest, calls |-> <<>>, outcomes |-> <<>>, result |-> NoResult]
NoObserver == [pc |-> "idle", args |-> <<>>, root |-> "", result |-> NoResult]

Init ==
    /\ pc = "idle"
    /\ request = NoRequest
    /\ cwd = "/cwd"
    /\ root = ""
    /\ calls = <<>>
    /\ outcomes = <<>>
    /\ rets = <<>>
    /\ result = NoResult
    /\ reply = NoReply
    /\ previous = NoPrevious
    /\ observer = NoObserver

\* the function serving the current request, and its arguments
Op == request.name
Args == request.args

\* the statements after the provider was obtained
Body(a, r) ==
    IF request.via = "group" THEN OperationBody(Op, a, r) ELSE legacyBody(Op, a, r)

\* variant: the call is started a second time while the first is awaited
Proceed_startsTwice(op, step, cs) ==
    IF step.t = "await"
    THEN /\ pc' = "body"
         /\ calls' = Append(Append(cs, [prim |-> step.prim, args |-> step.args]),
                            [prim |-> step.prim, args |-> step.args])
         /\ result' = Pending
    ELSE /\ pc' = "settled"
         /\ calls' = cs
         /\ result' = IF step.t = "return" THEN Fulfilled(step.value)
                      ELSE OperationCatch(op, step.error)

\* run the operation's code from continuation result step: issue the call it
\* awaits, or settle its promise.  cs: the calls issued so far.
Proceed(op, step, cs) ==
    IF step.t = "await"
    THEN /\ pc' = "body"
         /\ calls' = Append(cs, [prim |-> step.prim, args |-> step.args])
         /\ result' = Pending
    ELSE /\ pc' = "settled"
         /\ calls' = cs
         /\ result' = IF step.t = "return" THEN Fulfilled(step.value)
                      ELSE OperationCatch(op, step.error)

\* an operation of a group is invoked with argument bag a
Invoke(op, a) ==
    /\ pc = "idle"
    /\ request' = [via |-> "group", tool |-> "", name |-> op, hasArgs |-> TRUE, args |-> a]
    /\ LET f == FactoryArgs(op, a)
           k == getGit(f, <<>>, getGitBasePath(f))
       IN /\ root' = getGitBasePath(f)
          /\ IF k.t = "await"
             THEN /\ pc' = "getGit"
                  /\ calls' = <<[prim |-> k.prim, args |-> k.args]>>
                  /\ result' = Pending
             ELSE Proceed(op, OperationBody(op, a, <<>>), <<>>)
    /\ outcomes' = <<>>
    /\ rets' = <<>>
    /\ reply' = NoReply
    /\ UNCHANGED <<cwd, previous, observer>>

\* the CallToolRequestSchema handler receives {name, arguments}
CallTool(name, hasArgs, a) ==
    /\ pc = "idle"
    /\ LET h == LookupHandler(name)
           args == IF hasArgs THEN a ELSE <<>>
       IN /\ request' = [via |-> "dispatcher", tool |-> name,
                         name |-> IF h.t = "own" THEN h.fn ELSE "",
                         hasArgs |-> hasArgs, args |-> args]
          /\ IF h.t = "undefined"
             THEN /\ pc' = "replied"
                  /\ result' = NoResult
                  /\ reply' = UnknownToolReply(name)
                  /\ calls' = <<>>
                  /\ root' = ""
             ELSE IF h.t = "inherited"
             THEN /\ pc' = "settled"
                  /\ result' = CallInherited(h.key, args)
                  /\ reply' = NoReply
                  /\ calls' = <<>>
                  /\ root' = ""
             ELSE IF legacyVerifies(h.fn)
             THEN LET k == verifyGitRepo(args, <<>>)
                  IN /\ pc' = "verify"
                     /\ calls' = <<[prim |-> k.prim, args |-> k.args]>>
                     /\ result' = Pending
                     /\ reply' = NoReply
                     /\ root' = StrOr(args, "repoPath", cwd)
             ELSE /\ Proceed(h.fn, legacyBody(h.fn, args, <<>>), <<>>)
                  /\ reply' = NoReply
                  /\ root' = StrOr(args, "repoPath", cwd)
    /\ outcomes' = <<>>
    /\ rets' = <<>>
    /\ UNCHANGED <<cwd, previous, observer>>

PendingCall == calls[Len(calls)]

\* the provider completes the pending call with value v
ProviderReturn(v) ==
    /\ pc \in {"getGit", "verify", "body"}
    /\ v \in ProviderReturns(PendingCall.prim, PendingCall.args)
    /\ outcomes' = Append(outcomes, [ok |-> TRUE, value |-> v])
    /\ CASE pc = "getGit" ->
              LET k == getGit(FactoryArgs(Op, Args), <<v>>, root)
              IN /\ IF k.t = "throw"
                    THEN /\ pc' = "settled"
                         /\ calls' = calls
                         /\ result' = OperationCatch(Op, k.error)
                    ELSE Proceed(Op, Body(Args, <<>>), calls)
                 /\ UNCHANGED <<rets, root>>
         [] pc = "verify" ->
              LET k == verifyGitRepo(Args, <<v>>)
              IN /\ IF k.value # Null
                    THEN /\ pc' = "settled"
                         /\ calls' = calls
                         /\ result' = Fulfilled(k.value)
                    ELSE Proceed(Op, Body(Args, <<>>), calls)
                 /\ root' = StrOr(Args, "repoPath", cwd)
                 /\ UNCHANGED rets
         [] pc = "body" ->
              /\ rets' = Append(rets, v)
              /\ Proceed(Op, Body(Args, Append(rets, v)), calls)
              /\ UNCHANGED root
    /\ UNCHANGED <<request, cwd, reply, previous, observer>>

\* variant: a fault of a call of the body is swallowed and the body goes on
ProviderThrow_carriesOn(e) ==
    /\ pc \in {"getGit", "verify", "body"}
    /\ e \in ProviderThrows
    /\ outcomes' = Append(outcomes, [ok |-> FALSE, error |-> e])
    /\ IF pc = "body"
       THEN /\ rets' = Append(rets, Void)
            /\ Proceed(Op, Body(Args, Append(rets, Void)), calls)
       ELSE /\ pc' = "settled"
            /\ result' = OperationCatch(Op, e)
            /\ UNCHANGED <<calls, rets>>
    /\ UNCHANGED <<request, cwd, root, reply, previous, observer>>

\* variant: a call that throws is made once more before giving up
ProviderThrow_retriesOnce(e) ==
    /\ pc \in {"getGit", "verify", "body"}
    /\ e \in ProviderThrows
    /\ outcomes' = Append(outcomes, [ok |-> FALSE, error |-> e])
    /\ IF Cardinality({i \in 1..Len(calls) : calls[i] = calls[Len(calls)]}) = 1
       THEN /\ calls' = Append(calls, calls[Len(calls)])
            /\ UNCHANGED <<pc, result>>
       ELSE /\ pc' = "settled"
            /\ result' = OperationCatch(Op, e)
            /\ UNCHANGED calls
    /\ UNCHANGED <<request, cwd, root, rets, reply, previous, observer>>

\* the provider's pending call throws e
ProviderThrow(e) ==
    /\ pc \in {"getGit", "verify", "body"}
    /\ e \in ProviderThrows
    /\ outcomes' = Append(outcomes, [ok |-> FALSE, error |-> e])
    /\ pc' = "settled"
    /\ result' = IF pc = "verify"
                 THEN LET k == verifyGitRepoCatch(e)
                      IN IF k.t = "throw" THEN OperationCatch(Op, k.error)
                         ELSE Fulfilled(k.value)
                 ELSE OperationCatch(Op, e)
    /\ UNCHANGED <<request, cwd, root, calls, rets, reply, previous, observer>>

\* the pending provider call completes
ProviderResponds ==
    /\ pc \in {"getGit", "verify", "body"}
    /\ \/ \E v \in ProviderReturns(PendingCall.prim, PendingCall.args) : ProviderReturn(v)
       \/ \E e \in ProviderThrows : ProviderThrow(e)

\* the dispatcher resumes after `await handler(...)` and replies
Reply ==
    /\ pc = "settled"
    /\ request.via = "dispatcher"
    /\ reply' = DispatcherReply(result)
    /\ pc' = "replied"
    /\ UNCHANGED <<request, cwd, root, calls, outcomes, rets, result, previous, observer>>

\* the ListToolsRequestSchema handler
ListTools ==
    /\ pc = "idle"
    /\ request' = [via |-> "list", tool |-> "", name |-> "", hasArgs |-> FALSE, args |-> <<>>]
    /\ reply' = ListToolsReply
    /\ pc' = "replied"
    /\ UNCHANGED <<cwd, root, calls, outcomes, rets, result, previous, observer>>

\* the caller has the operation's promise, or the client has the reply:
\* the request is over and nothing of it is kept
Finish ==
    /\ \/ pc = "settled" /\ request.via = "group"
       \/ pc = "replied"
    /\ pc' = "idle"
    /\ request' = NoRequest
    /\ root' = ""
    /\ calls' = <<>>
    /\ outcomes' = <<>>
    /\ rets' = <<>>
    /\ result' = NoResult
    /\ reply' = NoReply
    /\ UNCHANGED <<cwd, previous, observer>>

Next ==
    \/ \E op \in Operations : \E a \in ArgBags(op) : Invoke(op, a)
    \/ \E name \in RequestNames : \E hasArgs \in BOOLEAN :
           \E a \in (IF hasArgs THEN ToolArgBags(name) ELSE {<<>>}) : CallTool(name, hasArgs, a)
    \/ ProviderResponds
    \/ Reply
    \/ ListTools
    \/ Finish

Spec == Init /\ [][Next]_vars

----------------------------------------------------------------------------
(* Calls made one after the other by a caller that keeps what one of the    *)
(* earlier calls did, or drops it: the operations of the branch group that  *)
(* read and change the branches, and gitInit.                               *)

SequenceOps == {"gitBranchList", "gitBranchCreate", "gitCheckout", "gitInit"}

\* the operation has returned its promise's value to the caller, who keeps
\* it (with what the provider was asked and answered) and goes on
Remember ==
    /\ pc = "settled"
    /\ request.via = "group"
    /\ previous' = [request |-> request, calls |-> calls, outcomes |-> outcomes,
                    result |-> result]
    /\ pc' = "idle"
    /\ request' = NoRequest
    /\ root' = ""
    /\ calls' = <<>>
    /\ outcomes' = <<>>
    /\ rets' = <<>>
    /\ result' = NoResult
    /\ reply' = NoReply
    /\ UNCHANGED <<cwd, observer>>

NextSequence ==
    \/ \E op \in SequenceOps : \E a \in ArgBags(op) : Invoke(op, a)
    \/ ProviderResponds
    \/ Remember
    \/ Finish

SpecSequence == Init /\ [][NextSequence]_vars

----------------------------------------------------------------------------
(* Two operations in flight on one repository: gitCommit, and a gitStatus   *)
(* another caller started.  Each has its own provider binding; what they    *)
(* share is the repository, whose staging area the provider's add fills and *)
(* its commit empties.                                                      *)

\* the files in the staging area: those a completed add put there, until a
\* commit completes (the staging area was empty when the request began)
StagingArea ==
    LET adds    == {i \in 1..Len(calls) : calls[i].prim = "add" /\ i <= Len(outcomes)
                                          /\ outcomes[i].ok}
        commits == {i \in 1..Len(calls) : calls[i].prim = "commit" /\ i <= Len(outcomes)
                                          /\ outcomes[i].ok}
    IN IF adds # {} /\ commits = {} THEN calls[CHOOSE i \in adds : TRUE].args.files
       ELSE <<>>

\* the GitStatus of a repository with these files staged
StatusSnapshot(staged) ==
    [CleanStatus EXCEPT !.staged = staged, !.isClean = (staged = <<>>)]

\* another caller invokes gitStatus
ObserverInvoke(a) ==
    /\ observer.pc = "idle"
    /\ LET f == FactoryArgs("gitStatus", a)
           k == getGit(f, <<>>, getGitBasePath(f))
       IN /\ k.t = "await"
          /\ observer' = [pc |-> "getGit", args |-> a, root |-> getGitBasePath(f),
                          result |-> Pending]
    /\ UNCHANGED <<pc, request, cwd, root, calls, outcomes, rets, result, reply, previous>>

\* its repository check returns b
ObserverChecked(b) ==
    /\ observer.pc = "getGit"
    /\ LET k == getGit(FactoryArgs("gitStatus", observer.args), <<b>>, observer.root)
       IN observer' = IF k.t = "throw"
                      THEN [observer EXCEPT !.pc = "settled",
                                            !.result = OperationCatch("gitStatus", k.error)]
                      ELSE [observer EXCEPT !.pc = "body"]
    /\ UNCHANGED <<pc, request, cwd, root, calls, outcomes, rets, result, reply, previous>>

\* its status call returns the repository as it is at this moment
ObserverStatus ==
    /\ observer.pc = "body"
    /\ gitStatus(observer.args, <<>>).t = "await"
    /\ LET snapshot == StatusSnapshot(IF observer.root = root THEN StagingArea ELSE <<>>)
           step == gitStatus(observer.args, <<snapshot>>)
       IN observer' = [observer EXCEPT !.pc = "settled", !.result = Fulfilled(step.value)]
    /\ UNCHANGED <<pc, request, cwd, root, calls, outcomes, rets, result, reply, previous>>

\* the other caller has its response
ObserverFinish ==
    /\ observer.pc = "settled"
    /\ observer' = NoObserver
    /\ UNCHANGED <<pc, request, cwd, root, calls, outcomes, rets, result, reply, previous>>

NextInterleaved ==
    \/ \E a \in ArgBags("gitCommit") : Invoke("gitCommit", a)
    \/ ProviderResponds
    \/ Finish
    \/ \E a \in RepoPathOpt : ObserverInvoke(a)
    \/ \E b \in BOOLEAN : ObserverChecked(b)
    \/ ObserverStatus
    \/ ObserverFinish

SpecInterleaved == Init /\ [][NextInterleaved]_vars

----------------------------------------------------------------------------
(* The working directory of the process is not the program's own: anything  *)
(* else running in the process may change it between two steps of the       *)
(* program.  process.cwd() reads it at the moment it is called.             *)

Directories == {"/cwd", "/elsewhere"}

\* the working directory of the process changes
ChangeDirectory ==
    /\ cwd' \in Directories \ {cwd}
    /\ UNCHANGED <<pc, request, root, calls, outcomes, rets, result, reply, previous, observer>>

NextChdir ==
    \/ Next
    \/ ChangeDirectory

SpecChdir == Init /\ [][NextChdir]_vars

----------------------------------------------------------------------------
(* Views of the state used by the properties *)

\* an operation of the groups was invoked directly
ViaGroup == request.via = "group"

\* a tool was called through the dispatcher
ViaDispatcher == request.via = "dispatcher"

\* the operation's promise has settled
Settled == pc \in {"settled", "replied"} /\ result.state \in {"fulfilled", "rejected"}

\* the last completed provider call ended by throwing
LastCallThrew == Len(outcomes) > 0 /\ ~outcomes[Len(outcomes)].ok

LastThrown == outcomes[Len(outcomes)].error

\* the operation's promise resolved to a failure envelope
FailedEnvelope ==
    /\ result.state = "fulfilled"
    /\ Has(result.value, "success")
    /\ ~result.value.success

\* the repository check of this request answered "not a repository"
NotARepository ==
    /\ Len(outcomes) > 0
    /\ calls[1].prim = "checkIsRepo"
    /\ outcomes[1].ok
    /\ ~outcomes[1].value

\* the provider primitives of the operations (every call but the check)
BodyCalls == {i \in 1..Len(calls) : calls[i].prim # "checkIsRepo"}

----------------------------------------------------------------------------
(* C1 *)

\* the phrases the property names
C1_NamedPhrase ==
    [gitStatus |-> "get status", gitCheckout |-> "checkout",
     gitPush |-> "push", gitAdd |-> "stage files"]

\* C1: whenever a provider call made by an operation of the groups throws an
\* Error with message M, the operation has returned exactly
\* {success: false, message: "Failed to <action>: M"}: nothing but the two
\* fields, the prefix "Failed to ", the phrase of the operation (for the four
\* operations the property names, the phrase it names), then ": " and M
\* verbatim.
C1_FaultBecomesFailedTo ==
    (ViaGroup /\ LastCallThrew /\ LastThrown.kind = "Error")
        => /\ pc = "settled"
           /\ result.state = "fulfilled"
           /\ DOMAIN result.value = {"success", "message"}
           /\ result.value.success = FALSE
           /\ StartsWith(result.value.message, "Failed to ")
           /\ EndsWith(result.value.message, ": " \o LastThrown.message)
           /\ result.value.message
                  = "Failed to " \o FailedTo(Op) \o ": " \o LastThrown.message
           /\ Op \in DOMAIN C1_NamedPhrase
                  => result.value.message
                         = "Failed to " \o C1_NamedPhrase[Op] \o ": " \o LastThrown.message

\* gitCheckout's checkout call threw Error("boom")
C1_Witness ==
    /\ ViaGroup
    /\ Op = "gitCheckout"
    /\ Len(calls) = 2
    /\ calls[2].prim = "checkout"
    /\ LastCallThrew
    /\ LastThrown = Error("boom")
    /\ result = Fulfilled([success |-> FALSE, message |-> "Failed to checkout: boom"])

----------------------------------------------------------------------------
(* C2 *)

\* C2 (as stated): whatever the provider factory or a provider primitive
\* throws, the promise of an operation of the groups resolves to an envelope
\* and never rejects.
C2_NeverRejects ==
    (ViaGroup /\ pc = "settled")
        => /\ result.state = "fulfilled"
           /\ Has(result.value, "success")
           /\ Has(result.value, "message")

----------------------------------------------------------------------------
(* C3 *)

\* the response the caller of the operation, or the client of the
\* dispatcher, receives, when it is an envelope with success = false
FailedResponses ==
    (IF FailedEnvelope THEN {result.value} ELSE {})
    \cup (IF /\ pc = "replied"
             /\ reply.kind = "content"
             /\ ~Has(reply.content[1].text.json, "js")
             /\ Has(reply.content[1].text.json, "success")
             /\ ~reply.content[1].text.json.success
          THEN {reply.content[1].text.json} ELSE {})

DispatcherOwnFailure(e) ==
    \/ StartsWith(e.message, "Unknown tool: ")
    \/ StartsWith(e.message, "Error executing tool: ")

\* the failure envelopes verifyGitRepo of git-tools.ts builds
VerifyFailure(e) ==
    \/ StartsWith(e.message, "Not a git repository: ")
    \/ StartsWith(e.message, "Error verifying repository: ")

----------------------------------------------------------------------------
(* C4 *)

\* the explicit repoPath, or the working directory when it is absent or empty
C4_Path == IF Has(Args, "repoPath") /\ Args.repoPath # "" THEN Args.repoPath ELSE cwd

\* C4: when an operation of the groups obtains its provider with the
\* repository check and the check answers "not a repository", the operation
\* is over at once: the fault is "Not a git repository: <repoPath, or the
\* working directory when repoPath is absent or empty>", returned in the
\* operation's failure envelope behind the operation's "Failed to <action>: ",
\* and the check is the only provider call made: no primitive of the
\* operation is invoked.
C4_NotARepositoryStops ==
    (ViaGroup /\ NotARepository)
        => /\ pc = "settled"
           /\ Len(calls) = 1
           /\ BodyCalls = {}
           /\ FailedEnvelope
           /\ ~Has(result.value, "data")
           /\ getGit(FactoryArgs(Op, Args), <<FALSE>>, root)
                  = Throw(Error("Not a git repository: " \o C4_Path))
           /\ result.value.message
                  = "Failed to " \o FailedTo(Op) \o ": Not a git repository: " \o C4_Path
           /\ rets = <<>>

\* gitPush with no repoPath, and gitAdd with one, outside a repository
C4_Witness ==
    /\ ViaGroup
    /\ NotARepository
    /\ \/ /\ Op = "gitPush"
          /\ ~Has(Args, "repoPath")
          /\ result.value.message = "Failed to push: Not a git repository: /cwd"
       \/ /\ Op = "gitAdd"
          /\ Has(Args, "repoPath")
          /\ result.value.message = "Failed to stage files: Not a git repository: /repo"

----------------------------------------------------------------------------
(* C5 *)

\* the JSON document of the reply's single text item
ReplyDocument == reply.content[1].text.json

\* C5 (as stated): a call of the dispatcher with a tool name that is not a
\* name of the catalog invokes no operation and makes no provider call, and
\* its reply is the envelope {success: false, message: "Unknown tool: <name>"}.
C5_UnknownToolRefused ==
    (ViaDispatcher /\ request.tool \notin ToolNames)
        => /\ Op \notin Operations
           /\ calls = <<>>
           /\ pc = "replied"
                  => reply = TextReply(JSONStringify([success |-> FALSE,
                                               message |-> "Unknown tool: " \o request.tool]))

----------------------------------------------------------------------------
(* C6 *)

\* v is a JSON object with a boolean success and a string message
IsEnvelope(v) ==
    /\ ~Has(v, "js")
    /\ Has(v, "success")
    /\ Has(v, "message")
    /\ v.success \in BOOLEAN
    /\ Len(v.message) >= 0

\* C6 (as stated): every reply of the call-tool handler, for every tool name
\* and every argument bag (an absent one included), is one text item
\* holding a JSON envelope with a boolean success and a string message; no
\* fault reaches the transport.
C6_ReplyIsEnvelope ==
    (ViaDispatcher /\ pc = "replied")
        => /\ reply.kind = "content"
           /\ Len(reply.content) = 1
           /\ reply.content[1].type = "text"
           /\ IsEnvelope(ReplyDocument)

----------------------------------------------------------------------------
(* C7 *)

----------------------------------------------------------------------------
(* C8 *)

\* C8: the catalog and the handler table correspond one to one.  In the
\* listed catalog no name occurs twice, every entry's name is a key of the
\* handler table and every key is the name of an entry; and a call of a
\* catalog name is routed to the one function the table holds for it, never
\* refused as unknown.
C8_CatalogMatchesHandlers ==
    /\ reply.kind = "tools"
           => /\ \A i, j \in 1..Len(reply.tools) :
                     reply.tools[i].name = reply.tools[j].name => i = j
              /\ {reply.tools[i].name : i \in 1..Len(reply.tools)} = DOMAIN toolHandlers
    /\ (ViaDispatcher /\ request.tool \in ToolNames)
           => /\ request.tool \in DOMAIN toolHandlers
              /\ Op = toolHandlers[request.tool]
              /\ Op \in Operations
              /\ reply.kind = "content" => ~StartsWith(ReplyDocument.message, "Unknown tool: ")
    /\ (ViaDispatcher /\ Op \in Operations) => request.tool \in ToolNames

\* the catalog was listed with git_push in it, or git_push was called and
\* answered by gitPush
C8_Witness ==
    \/ /\ reply.kind = "tools"
       /\ \E i \in 1..Len(reply.tools) : reply.tools[i].name = "git_push"
    \/ /\ ViaDispatcher
       /\ request.tool = "git_push"
       /\ pc = "replied"
       /\ Op = "gitPush"

----------------------------------------------------------------------------
(* C9 *)

\* the diff call of this request and the argument list it was given
DiffCalls == {i \in 1..Len(calls) : calls[i].prim = "diff"}

DiffArgsIssued == calls[CHOOSE i \in DiffCalls : TRUE].args.args

\* the argument list the property describes, "given" read as g(name)
C9_Described(a, g(_)) ==
    (IF Flag(a, "cached") THEN <<"--cached">> ELSE <<>>)
    \o (IF g("fromCommit") /\ g("toCommit")
        THEN <<a.fromCommit \o (IF Flag(a, "useThreeDotRange") THEN "..." ELSE "..")
                            \o a.toCommit>>
        ELSE IF g("fromCommit") THEN <<a.fromCommit>>
        ELSE IF g("toCommit") THEN <<a.toCommit>>
        ELSE <<>>)
    \o (IF g("files") THEN <<"--">> \o a.files ELSE <<>>)

\* the argument was supplied
C9_Supplied(k) == Has(Args, k)

\* the argument was supplied and is not empty ("" or [])
C9_SuppliedNonEmpty(k) == Has(Args, k) /\ Len(Args[k]) > 0

\* C9 (as stated): gitDiff of the file operations hands the diff primitive
\* the described list, an argument being given when it was supplied.
C9_ArgsWhenSupplied ==
    (ViaGroup /\ Op = "gitDiff" /\ DiffCalls # {})
        => DiffArgsIssued = C9_Described(Args, C9_Supplied)

\* C9 (amended): gitDiff of the file operations hands the diff primitive the
\* described list, an argument being given when it was supplied and is not
\* empty: an empty files list adds no "--", and an empty fromCommit or
\* toCommit is no ref.
C9_ArgsWhenNonEmpty ==
    (ViaGroup /\ Op = "gitDiff" /\ DiffCalls # {})
        => /\ Cardinality(DiffCalls) = 1
           /\ DiffArgsIssued = C9_Described(Args, C9_SuppliedNonEmpty)

\* a staged three-dot range diff of two files was issued
C9_Witness ==
    /\ ViaGroup
    /\ Op = "gitDiff"
    /\ DiffCalls # {}
    /\ DiffArgsIssued = <<"--cached", "abc123...def456", "--", "a.ts", "b.ts">>

----------------------------------------------------------------------------
(* C10 *)

\* C10 (as stated): git_diff called through the dispatcher with fromCommit
\* and toCommit hands the diff primitive an argument list that contains the
\* range token, as gitDiff of the file operations does.
C10_DispatchedDiffHasRange ==
    (/\ ViaDispatcher
     /\ request.tool = "git_diff"
     /\ StrGiven(Args, "fromCommit")
     /\ StrGiven(Args, "toCommit")
     /\ DiffCalls # {})
        => /\ \E i \in 1..Len(DiffArgsIssued) :
                  DiffArgsIssued[i] = Args.fromCommit
                                      \o (IF Flag(Args, "useThreeDotRange") THEN "..." ELSE "..")
                                      \o Args.toCommit
           /\ DiffArgsIssued = gitDiffArgs(Args)

----------------------------------------------------------------------------
(* More views *)

\* the positions of the calls of primitive p made for this request
CallsOf(p) == {i \in 1..Len(calls) : calls[i].prim = p}

\* the call at position i has completed by returning
Completed(i) == i <= Len(outcomes) /\ outcomes[i].ok

\* the operation's promise resolved to a success envelope
Succeeded ==
    /\ result.state = "fulfilled"
    /\ Has(result.value, "success")
    /\ result.value.success

\* what the last completed call returned
LastReturned == outcomes[Len(outcomes)].value

----------------------------------------------------------------------------
(* C11 *)

\* what the property states of every commit call and of a successful
\* gitCommit, the files being given when filesGiven holds
C11_Described(filesGiven) ==
    /\ \A i \in CallsOf("commit") :
          /\ filesGiven
                 => \E j \in CallsOf("add") :
                        /\ j < i
                        /\ calls[j].args = [files |-> Args.files]
                        /\ Completed(j)
          /\ Has(Args, "message") => calls[i].args.message = Args.message
          /\ DOMAIN calls[i].args.options = (IF Flag(Args, "amend") THEN {"--amend"} ELSE {})
          /\ Flag(Args, "amend") => calls[i].args.options["--amend"] = Null
    /\ Succeeded
           => /\ CallsOf("commit") # {}
              /\ result.value.message = "Committed changes: " \o LastReturned.commit
              /\ result.value.data.commit = LastReturned.commit
              /\ LastReturned.commit \in CommitIds

\* C11 (as stated): gitCommit with a message and files given stages the
\* files (an add call with exactly that list, completed) before it invokes
\* commit with the message; a successful response is "Committed changes: <id>"
\* with data.commit the id the provider's commit returned; amend is the option
\* "--amend" with value null, and there is no other option.
C11_StageThenCommit ==
    Op = "gitCommit" => C11_Described(Has(Args, "files"))

\* C11 (amended): the same, the files being given when the list is supplied
\* and is not empty.
C11_StageNonEmptyThenCommit ==
    Op = "gitCommit" => C11_Described(Has(Args, "files") /\ Args.files # <<>>)

\* an amending commit of two files succeeded after add completed
C11_Witness ==
    /\ ViaGroup
    /\ Op = "gitCommit"
    /\ Flag(Args, "amend")
    /\ Len(calls) = 3
    /\ calls[2] = [prim |-> "add", args |-> [files |-> <<"a.ts", "b.ts">>]]
    /\ calls[3].prim = "commit"
    /\ Succeeded
    /\ result.value.message = "Committed changes: def456"

----------------------------------------------------------------------------
(* C12 *)

\* commit or "HEAD"
C12_Target == IF Has(Args, "commit") /\ Args.commit # "" THEN Args.commit ELSE "HEAD"

\* the mode, "mixed" by default
C12_Mode == IF Has(Args, "mode") /\ Args.mode # "" THEN Args.mode ELSE "mixed"

C12_FilesNonEmpty == Has(Args, "files") /\ Len(Args.files) > 0

\* C12: gitReset never issues more than one reset call, and a gitReset that
\* returned success issued exactly one.  With a non-empty files list the
\* call is [commit or "HEAD", ...files] and the success message is
\* "Unstaged N file(s): <files joined by ", ">"; otherwise the call is
\* ["--<mode>", commit or "HEAD"], mode being "mixed" by default, and the
\* success message is "Reset to <target> (<mode> mode)".
C12_ResetShapes ==
    Op = "gitReset"
        => /\ Cardinality(CallsOf("reset")) <= 1
           /\ \A i \in CallsOf("reset") :
                  calls[i].args.args
                      = (IF C12_FilesNonEmpty THEN <<C12_Target>> \o Args.files
                         ELSE <<"--" \o C12_Mode, C12_Target>>)
           /\ Succeeded
                  => /\ Cardinality(CallsOf("reset")) = 1
                     /\ DOMAIN result.value = {"success", "message"}
                     /\ result.value.message
                            = (IF C12_FilesNonEmpty
                               THEN "Unstaged " \o ToString(Len(Args.files)) \o " file(s): "
                                    \o Join(Args.files, ", ")
                               ELSE "Reset to " \o C12_Target \o " (" \o C12_Mode
                                    \o " mode)")

\* two files were unstaged from HEAD~1, or HEAD~1 was reset to in the
\* default mode
C12_Witness ==
    /\ ViaGroup
    /\ Op = "gitReset"
    /\ Succeeded
    /\ \/ /\ calls[2].args.args = <<"HEAD~1", "a.ts", "b.ts">>
          /\ result.value.message = "Unstaged 2 file(s): a.ts, b.ts"
       \/ /\ ~Has(Args, "mode")
          /\ calls[2].args.args = <<"--mixed", "HEAD~1">>
          /\ result.value.message = "Reset to HEAD~1 (mixed mode)"

----------------------------------------------------------------------------
(* C13 *)

\* the message the property describes, "given" read as g(name)
C13_Described(a, g(_)) ==
    IF g("fromCommit") /\ g("toCommit")
    THEN "Diff for " \o a.fromCommit
             \o (IF Flag(a, "useThreeDotRange") THEN "..." ELSE "..") \o a.toCommit
    ELSE IF g("fromCommit") THEN "Diff from " \o a.fromCommit \o " to working tree"
    ELSE IF g("toCommit") THEN "Diff to " \o a.toCommit
    ELSE IF Flag(a, "cached") THEN "Diff for staged changes"
    ELSE IF g("files") THEN "Diff for " \o ToString(Len(a.files)) \o " file(s)"
    ELSE "Diff for all file(s)"

\* C13 (as stated): the success message of gitDiff of the file operations
\* is the first matching case of the list, an argument being given when it
\* was supplied.
C13_MessageWhenSupplied ==
    (ViaGroup /\ Op = "gitDiff" /\ Succeeded)
        => result.value.message = C13_Described(Args, C9_Supplied)

\* C13 (amended): the success message of gitDiff of the file operations is
\* the first matching case of the list, an argument being given when it was
\* supplied and is not empty: an empty files list reports
\* "Diff for all file(s)" and an empty fromCommit or toCommit is no commit.
C13_MessageWhenNonEmpty ==
    (ViaGroup /\ Op = "gitDiff" /\ Succeeded)
        => result.value.message = C13_Described(Args, C9_SuppliedNonEmpty)

\* a staged diff from a commit reports the commit, not the staging; a
\* staged diff of two files reports the staging, not the files
C13_Witness ==
    /\ ViaGroup
    /\ Op = "gitDiff"
    /\ Succeeded
    /\ Flag(Args, "cached")
    /\ \/ result.value.message = "Diff from abc123 to working tree"
       \/ /\ Has(Args, "files")
          /\ Len(Args.files) = 2
          /\ result.value.message = "Diff for staged changes"

----------------------------------------------------------------------------
(* C14 *)

\* xs, whose last n elements are the file list, without the separator that
\* precedes the file list
C14_WithoutSeparator(xs, n) ==
    IF n > 0 THEN SubSeq(xs, 1, Len(xs) - n - 1) \o SubSeq(xs, Len(xs) - n + 1, Len(xs))
    ELSE xs

\* C14 (as stated): whenever gitDiff of the file operations asks for the
\* summary, it hands diffSummary the argument list it handed diff without the
\* "--" that separates the file list: the same flags and refs and the same
\* files, in the same order.
C14_SummaryArgsFollowDiffArgs ==
    (ViaGroup /\ Op = "gitDiff")
        => \A i \in CallsOf("diffSummary") :
               /\ Cardinality(DiffCalls) = 1
               /\ calls[i].args.args
                      = C14_WithoutSeparator(DiffArgsIssued,
                                             IF Has(Args, "files") THEN Len(Args.files) ELSE 0)
----------------------------------------------------------------------------
(* C15 *)

\* C15 (as stated): gitLog hands the log primitive an options object that
\* has maxCount, with the supplied value, exactly when maxCount is present
\* in the arguments, and file likewise, and nothing else; and the data of a
\* successful response lists the provider's commits in the provider's
\* order, each with exactly hash, date, message, author_name and
\* author_email.
C15_LogOptionsVerbatim ==
    Op = "gitLog"
        => /\ \A i \in CallsOf("log") :
                  /\ DOMAIN calls[i].args.options = DOMAIN Args \cap {"maxCount", "file"}
                  /\ \A k \in DOMAIN calls[i].args.options :
                         calls[i].args.options[k] = Args[k]
           /\ Succeeded
                  => /\ Len(result.value.data) = Len(LastReturned.all)
                     /\ \A n \in 1..Len(result.value.data) :
                            /\ DOMAIN result.value.data[n]
                                   = {"hash", "date", "message", "author_name", "author_email"}
                            /\ \A k \in DOMAIN result.value.data[n] :
                                   result.value.data[n][k] = LastReturned.all[n][k]

----------------------------------------------------------------------------
(* C16 *)

\* C16: gitStashPop hands stash the list ["pop", "stash@{<index>}"] exactly
\* when an index is supplied, index 0 included, and ["pop"] otherwise; its
\* success message is "Applied stash@{<index>}" in the first case and
\* "Applied most recent stash" in the second.
C16_StashPopIndex ==
    Op = "gitStashPop"
        => /\ \A i \in CallsOf("stash") :
                  /\ Has(Args, "index")
                         => calls[i].args.args
                                = <<"pop", "stash@{" \o ToString(Args.index) \o "}">>
                  /\ ~Has(Args, "index") => calls[i].args.args = <<"pop">>
           /\ Succeeded
                  => /\ Cardinality(CallsOf("stash")) = 1
                     /\ Has(Args, "index")
                            => result.value.message
                                   = "Applied stash@{" \o ToString(Args.index) \o "}"
                     /\ ~Has(Args, "index")
                            => result.value.message = "Applied most recent stash"

\* the stash of index 0 was popped
C16_Witness ==
    /\ ViaGroup
    /\ Op = "gitStashPop"
    /\ Succeeded
    /\ Has(Args, "index")
    /\ Args.index = 0
    /\ calls[2] = [prim |-> "stash", args |-> [args |-> <<"pop", "stash@{0}">>]]
    /\ result.value.message = "Applied stash@{0}"

----------------------------------------------------------------------------
(* C17 *)

\* the arguments of the fetch call of this request
FetchArgs == calls[CHOOSE i \in CallsOf("fetch") : TRUE].args

----------------------------------------------------------------------------
(* C18 *)

\* the arguments of the push call of this request
PushArgs == calls[CHOOSE i \in CallsOf("push") : TRUE].args

\* C18: gitPush passes remote and branch to push as they were supplied
\* (undefined when absent), with an options list that is "--force" if
\* force, then "--set-upstream" if setUpstream, and nothing else.
C18_PushOptions ==
    (Op = "gitPush" /\ CallsOf("push") # {})
        => /\ Cardinality(CallsOf("push")) = 1
           /\ DOMAIN PushArgs = {"options"} \cup (DOMAIN Args \cap {"remote", "branch"})
           /\ \A k \in DOMAIN Args \cap {"remote", "branch"} : PushArgs[k] = Args[k]
           /\ PushArgs.options
                  = (IF Has(Args, "force") /\ Args.force THEN <<"--force">> ELSE <<>>)
                    \o (IF Has(Args, "setUpstream") /\ Args.setUpstream
                        THEN <<"--set-upstream">> ELSE <<>>)

\* a forced push that sets the upstream, with no remote supplied
C18_Witness ==
    /\ ViaGroup
    /\ Op = "gitPush"
    /\ CallsOf("push") # {}
    /\ ~Has(PushArgs, "remote")
    /\ Has(PushArgs, "branch")
    /\ PushArgs.branch = "main"
    /\ PushArgs.options = <<"--force", "--set-upstream">>

----------------------------------------------------------------------------
(* C19 *)

\* C19: a successful gitStatus answers "Working tree clean" exactly when
\* the provider's snapshot is clean and "Working tree has changes"
\* otherwise; the isClean field of its data is the snapshot's flag, so it
\* agrees with the message; and every renamed entry of the snapshot is
\* rendered "<from> -> <to>", in order.
C19_StatusMessage ==
    (Op = "gitStatus" /\ Succeeded)
        => /\ result.value.message
                  \in {"Working tree clean", "Working tree has changes"}
           /\ (result.value.message = "Working tree clean") <=> LastReturned.isClean
           /\ result.value.data.isClean = LastReturned.isClean
           /\ (result.value.message = "Working tree clean") <=> result.value.data.isClean
           /\ Len(result.value.data.renamed) = Len(LastReturned.renamed)
           /\ \A i \in 1..Len(LastReturned.renamed) :
                  result.value.data.renamed[i]
                      = LastReturned.renamed[i].from \o " -> " \o LastReturned.renamed[i].to

\* the status of a tree with a renamed file
C19_Witness ==
    /\ ViaGroup
    /\ Op = "gitStatus"
    /\ Succeeded
    /\ result.value.message = "Working tree has changes"
    /\ ~result.value.data.isClean
    /\ result.value.data.renamed = <<"old.ts -> new.ts">>

----------------------------------------------------------------------------
(* C20 *)

\* the call in progress has the arguments of the call kept from before
SameArguments ==
    /\ ViaGroup
    /\ previous.request.via = "group"
    /\ previous.request.name = Op
    /\ previous.request.args = Args

\* the provider has answered the call in progress, so far, as it answered
\* the call kept from before
SameAnswersSoFar ==
    /\ Len(outcomes) <= Len(previous.outcomes)
    /\ \A i \in 1..Len(outcomes) : outcomes[i] = previous.outcomes[i]

----------------------------------------------------------------------------
(* C21 *)

\* C21: the root of an operation is its non-empty repoPath, else a working
\* directory of the process, and it is resolved once: the message of a
\* refused non-repository and the message of a successful gitInit both name
\* the root the provider was bound to, whatever the working directory has
\* become since.
C21_RootResolvedOnce ==
    ViaGroup
        => /\ StrGiven(Args, "repoPath") => root = Args.repoPath
           /\ ~StrGiven(Args, "repoPath") => root \in Directories
           /\ NotARepository
                  => result.value.message
                         = "Failed to " \o FailedTo(Op) \o ": Not a git repository: " \o root
           /\ (Op = "gitInit" /\ Succeeded)
                  => result.value.message
                         = "Initialized empty Git repository in " \o root

----------------------------------------------------------------------------
(* C22 *)

\* C22: gitInit and gitClone hand required = false to the factory, no
\* repository check is ever issued for them, and the first call they issue
\* is init, or clone once a url or target is there to clone; every other
\* operation leaves required at true and its first call is the check.
C22_OnlyInitAndCloneUnchecked ==
    /\ ViaGroup
          => IF Op \in {"gitInit", "gitClone"}
             THEN /\ ~getGitRequired(FactoryArgs(Op, Args))
                  /\ CallsOf("checkIsRepo") = {}
                  /\ Op = "gitInit" => calls[1].prim = "init"
                  /\ (Op = "gitClone" /\ Has(Args, "url")) => calls[1].prim = "clone"
             ELSE /\ getGitRequired(FactoryArgs(Op, Args))
                  /\ calls[1].prim = "checkIsRepo"
    /\ (ViaDispatcher /\ Op \in {"gitInit", "gitClone"})
          => CallsOf("checkIsRepo") = {}

\* gitClone has cloned with no check asked of the provider
C22_Witness ==
    /\ ViaGroup
    /\ Op = "gitClone"
    /\ Succeeded
    /\ Len(calls) = 1
    /\ calls[1].prim = "clone"
    /\ outcomes = <<[ok |-> TRUE, value |-> Void]>>

----------------------------------------------------------------------------
(* C23 *)

\* C23: an operation is one atomic request and response.  Its caller has
\* nothing but a pending promise until it settles, and nobody is shown the
\* state between its primitives: a gitStatus answered to another caller
\* never lists files that a gitCommit staged and has not committed, whether
\* that gitCommit is still running or its commit call has faulted.
C23_NoIntermediateStateExposed ==
    /\ pc \in {"getGit", "body"} => result = Pending
    /\ (observer.pc = "settled" /\ observer.result.state = "fulfilled"
            /\ observer.result.value.success)
          => observer.result.value.data.staged = <<>>

----------------------------------------------------------------------------
(* C24 *)

\* the provider calls issued and not yet completed
InFlight == Len(calls) - Len(outcomes)

\* C24: at most one provider call of a request is in flight: while the
\* operation waits exactly one call is open, the last one issued, and every
\* call before it has completed; once it has settled none is open.
C24_OneCallInFlight ==
    /\ InFlight \in {0, 1}
    /\ pc \in {"getGit", "verify", "body"} => InFlight = 1
    /\ pc \in {"idle", "settled", "replied"} => InFlight = 0

\* gitDiff waits for diffSummary after the check and diff have completed
C24_Witness ==
    /\ ViaGroup
    /\ Op = "gitDiff"
    /\ pc = "body"
    /\ Len(calls) = 3
    /\ calls[2].prim = "diff"
    /\ calls[3].prim = "diffSummary"
    /\ Len(outcomes) = 2
    /\ outcomes[2].ok

----------------------------------------------------------------------------
(* C25 *)

\* C25: nothing is retried.  On both routes no primitive is invoked twice
\* for one request, and a call that threw is the last call of the request:
\* the operation has settled and issued nothing after it.
C25_NoRetries ==
    /\ \A i, j \in 1..Len(calls) : calls[i].prim = calls[j].prim => i = j
    /\ \A i \in 1..Len(outcomes) :
           ~outcomes[i].ok => /\ i = Len(calls)
                              /\ pc \in {"settled", "replied"}

\* gitPull through the dispatcher: pull threw, and was not called again
C25_Witness ==
    /\ ViaDispatcher
    /\ Op = "gitPull"
    /\ pc = "replied"
    /\ Len(calls) = 2
    /\ calls[2].prim = "pull"
    /\ Len(outcomes) = 2
    /\ ~outcomes[2].ok
    /\ outcomes[2].error = Error("boom")

----------------------------------------------------------------------------
(* C26 *)

\* the call at position i is primitive p and it threw
Faulted(i, p) ==
    /\ i <= Len(outcomes)
    /\ calls[i].prim = p
    /\ ~outcomes[i].ok

\* C26: an operation of the groups stops at its first fault.  After the
\* factory refused (not a repository) or any call threw, the operation has
\* settled without success and that call is the last it issued.  In
\* gitCommit a stage call that threw means commit was never called, and
\* when what was thrown is an Error with message M the response is exactly
\* "Failed to commit: M"; in gitDiff a diff call that threw means
\* diffSummary was never called.
C26_AbortOnFirstFault ==
    ViaGroup
        => /\ \A i \in 1..Len(outcomes) :
                  ~outcomes[i].ok => /\ Len(calls) = i
                                     /\ pc = "settled"
                                     /\ ~Succeeded
           /\ NotARepository => /\ Len(calls) = 1
                                /\ pc = "settled"
                                /\ ~Succeeded
           /\ (Op = "gitCommit" /\ Faulted(2, "add"))
                  => /\ CallsOf("commit") = {}
                     /\ outcomes[2].error.kind = "Error"
                            => result = Fulfilled([success |-> FALSE,
                                                   message |-> "Failed to commit: "
                                                       \o outcomes[2].error.message])
           /\ (Op = "gitDiff" /\ Faulted(2, "diff"))
                  => CallsOf("diffSummary") = {}

\* gitCommit's stage call threw Error("boom"): no commit call
C26_Witness ==
    /\ ViaGroup
    /\ Op = "gitCommit"
    /\ Faulted(2, "add")
    /\ Len(calls) = 2
    /\ outcomes[2].error = Error("boom")
    /\ result = Fulfilled([success |-> FALSE, message |-> "Failed to commit: boom"])

----------------------------------------------------------------------------
(* C27 *)

\* C27: gitDiff of the file group answers success only after both diff and
\* diffSummary returned, and then its data has exactly the two fields diff,
\* the text diff returned, and summary.  When diffSummary throws after diff
\* returned, the operation does not succeed and whatever it answers has no
\* data, so the text is not handed back; thrown as an Error with message M
\* it answers exactly {success: false, message: "Failed to get diff: M"}.
C27_DiffNeedsBoth ==
    (ViaGroup /\ Op = "gitDiff")
        => /\ Succeeded
                  => /\ Len(calls) = 3
                     /\ calls[2].prim = "diff" /\ Completed(2)
                     /\ calls[3].prim = "diffSummary" /\ Completed(3)
                     /\ DOMAIN result.value.data = {"diff", "summary"}
                     /\ result.value.data.diff = outcomes[2].value
           /\ (Completed(2) /\ Faulted(3, "diffSummary"))
                  => /\ pc = "settled"
                     /\ ~Succeeded
                     /\ result.state = "fulfilled" => ~Has(result.value, "data")
                     /\ outcomes[3].error.kind = "Error"
                            => result = Fulfilled([success |-> FALSE,
                                                   message |-> "Failed to get diff: "
                                                       \o outcomes[3].error.message])

\* diff returned its text and diffSummary threw Error("boom")
C27_Witness ==
    /\ ViaGroup
    /\ Op = "gitDiff"
    /\ Completed(2)
    /\ outcomes[2].value = SomeDiffText
    /\ Faulted(3, "diffSummary")
    /\ outcomes[3].error = Error("boom")
    /\ result = Fulfilled([success |-> FALSE, message |-> "Failed to get diff: boom"])

----------------------------------------------------------------------------
(* C28 *)

ResetModeFlags == {"--soft", "--mixed", "--hard"}

\* C28: whenever gitReset is given a non-empty files list, no argument of
\* the reset call it issues is one of the flags --soft, --mixed, --hard.
C28_NoModeWithFiles ==
    (Op = "gitReset" /\ NonEmptyList(Args, "files"))
        => \A i \in CallsOf("reset") :
               \A k \in 1..Len(calls[i].args.args) :
                   calls[i].args.args[k] \notin ResetModeFlags

----------------------------------------------------------------------------
(* C29 *)

\* the files list was handed over, and it is empty
C29_EmptyFiles == Has(Args, "files") /\ Args.files = <<>>

\* the argument bag without its files
C29_WithoutFiles == [k \in DOMAIN Args \ {"files"} |-> Args[k]]

\* C29: for gitReset, gitDiff and gitCommit of the groups an empty files
\* list is an absent one: at every point reached, the operation given the
\* same bag without files would await the same call or return the same
\* response.  So gitReset issues ["--<mode>", commit or "HEAD"], "--hard"
\* included; gitDiff passes no "--" and, with no commit and not cached,
\* reports "Diff for all file(s)"; and gitCommit issues no stage call.
C29_EmptyFilesIsNoFiles ==
    (ViaGroup /\ Op \in {"gitReset", "gitDiff", "gitCommit"} /\ C29_EmptyFiles)
        => /\ \A n \in 0..Len(rets) :
                  OperationBody(Op, Args, SubSeq(rets, 1, n))
                      = OperationBody(Op, C29_WithoutFiles, SubSeq(rets, 1, n))
           /\ Op = "gitReset"
                  => \A i \in CallsOf("reset") :
                         calls[i].args.args
                             = <<"--" \o StrOr(Args, "mode", "mixed"),
                                 StrOr(Args, "commit", "HEAD")>>
           /\ Op = "gitDiff"
                  => /\ \A i \in CallsOf("diff") :
                            \A k \in 1..Len(calls[i].args.args) :
                                calls[i].args.args[k] # "--"
                     /\ (Succeeded /\ DOMAIN Args = {"files"})
                            => result.value.message = "Diff for all file(s)"
           /\ Op = "gitCommit" => CallsOf("add") = {}

\* gitReset({files: [], mode: "hard"}) has reset hard to HEAD
C29_Witness ==
    /\ ViaGroup
    /\ Op = "gitReset"
    /\ C29_EmptyFiles
    /\ Succeeded
    /\ calls[2].args.args = <<"--hard", "HEAD">>
    /\ result.value.message = "Reset to HEAD (hard mode)"

----------------------------------------------------------------------------
(* C30 *)

\* the tools the catalog annotates readOnly
ReadOnlyTools ==
    {tools[i].name : i \in {j \in 1..Len(tools) : "readOnly" \in tools[j].annotations}}

\* the primitives that read
ReadPrimitives ==
    {"checkIsRepo", "status", "branch", "diff", "diffSummary", "log", "show",
     "stashList", "getRemotes", "fetch"}

\* C30: the tools annotated readOnly are git_status, git_branch_list,
\* git_diff, git_log, git_show, git_stash_list, git_remote_list and
\* git_fetch, and a call of one of them through the dispatcher issues only
\* checkIsRepo, status, branch without arguments, diff, diffSummary, log,
\* show, stashList, getRemotes and fetch, whatever its argument bag.
C30_ReadOnlyToolsOnlyRead ==
    /\ ReadOnlyTools = {"git_status", "git_branch_list", "git_diff", "git_log",
                        "git_show", "git_stash_list", "git_remote_list", "git_fetch"}
    /\ (ViaDispatcher /\ request.tool \in ReadOnlyTools)
          => \A i \in 1..Len(calls) :
                 /\ calls[i].prim \in ReadPrimitives
                 /\ calls[i].prim = "branch" => ~Has(calls[i].args, "args")

\* git_fetch has fetched origin/main: the check, then fetch
C30_Witness ==
    /\ ViaDispatcher
    /\ request.tool = "git_fetch"
    /\ pc = "replied"
    /\ Succeeded
    /\ Len(calls) = 2
    /\ calls[1].prim = "checkIsRepo"
    /\ calls[2].prim = "fetch"
    /\ FetchArgs = [remote |-> "origin", branch |-> "main"]

====
